---- MODULE Spec2Model ----
(***************************************************************************)
(* A model of SampleUtil (src/util/sample.cpp): the aligned allocator and  *)
(* the sample-buffer arithmetic.  Every function of the library is a pure  *)
(* call/return operation on caller-owned buffers, so each function is one  *)
(* operator (its loops are RECURSIVE operators that perform the writes in  *)
(* the order of the source) and each call is one action.                   *)
(*                                                                         *)
(* CSAMPLE / CSAMPLE_GAIN (float) values are modelled as exact rationals   *)
(* <<numerator, denominator>> in lowest terms, extended with the IEEE      *)
(* results of a division by zero (<<1,0>> = +inf, <<-1,0>> = -inf,         *)
(* <<0,0>> = NaN).  Rounding of the float operations is not modelled.      *)
(* Buffers are sequences; At/Put use the 0-based indices of the source.    *)
(***************************************************************************)
EXTENDS Integers, Sequences, FiniteSets, TLC

VARIABLES
    op,        \* the function that was called ("idle" before the call)
    args,      \* the scalar arguments of that call
    pDest,     \* the destination / in-place buffer (CSAMPLE*)
    pSrc,      \* the source buffer (const CSAMPLE*)
    pDest0,    \* the content of pDest before the call
    ret,       \* the value the call returned
    gains,     \* the gain (or cross_mix) value used for each frame, in loop order
    divisor,   \* the integer divisor of the gain-delta / cross_inc division
    pFixed,    \* a buffer of fixed-point samples (SAMPLE*, int16_t)
    pFixed0,   \* the content of pFixed before the conversions
    build,     \* the build target: alignment, pointer size, allocator environment
    heap,      \* the blocks std::malloc has handed out and not yet released
    mem,       \* the bytes of memory that were written (address -> byte)
    bufs,      \* the buffers SampleUtil::alloc returned and nobody freed yet
    released   \* what the last SampleUtil::free passed to std::free

vars == <<op, args, pDest, pSrc, pDest0, ret, gains, divisor,
          pFixed, pFixed0, build, heap, mem, bufs, released>>

bufVars == <<pDest, pSrc, pDest0, ret, gains, divisor>>
fixVars == <<pFixed, pFixed0>>
memVars == <<build, heap, mem, bufs, released>>

----------------------------------------------------------------------------
(* Exact rational arithmetic for CSAMPLE and CSAMPLE_GAIN.                  *)

Abs(n) == IF n < 0 THEN -n ELSE n
Sign(n) == IF n < 0 THEN -1 ELSE IF n > 0 THEN 1 ELSE 0

RECURSIVE GCD(_, _)
GCD(a, b) == IF b = 0 THEN a ELSE GCD(b, a % b)

Norm(n, d) ==
    IF d = 0 THEN <<Sign(n), 0>>
    ELSE LET g == GCD(Abs(n), Abs(d))
         IN  <<(Sign(d) * n) \div g, Abs(d) \div g>>

Q(n, d) == Norm(n, d)
R(n) == <<n, 1>>

CSAMPLE_ZERO == R(0)
CSAMPLE_GAIN_ZERO == R(0)
CSAMPLE_GAIN_ONE == R(1)
NoValue == <<0, -1>>          \* "no value": not a CSAMPLE

IsFinite(x) == x[2] > 0
IsNaN(x) == x = <<0, 0>>

RAdd(x, y) == Norm(x[1] * y[2] + y[1] * x[2], x[2] * y[2])
RSub(x, y) == Norm(x[1] * y[2] - y[1] * x[2], x[2] * y[2])
RMul(x, y) == Norm(x[1] * y[1], x[2] * y[2])
RDiv(x, y) ==
    IF y[1] = 0 THEN Norm(x[1] * y[2], 0)      \* x/0 = +-inf, 0/0 = NaN
    ELSE Norm(x[1] * y[2] * Sign(y[1]), x[2] * Abs(y[1]))
RNeg(x) == <<-x[1], x[2]>>
RAbs(x) == <<Abs(x[1]), x[2]>>
\* x < y on the extended values; every comparison with NaN is false
RLt(x, y) ==
    /\ ~IsNaN(x) /\ ~IsNaN(y) /\ x # y
    /\ IF IsFinite(x) /\ IsFinite(y) THEN x[1] * y[2] < y[1] * x[2]
       ELSE IF IsFinite(y) THEN x[1] < 0
       ELSE y[1] > 0
RGt(x, y) == RLt(y, x)
RLe(x, y) == ~IsNaN(x) /\ ~IsNaN(y) /\ (x = y \/ RLt(x, y))

----------------------------------------------------------------------------
(* Buffers.                                                                 *)

At(buf, i) == buf[i + 1]
Put(buf, i, v) == [buf EXCEPT ![i + 1] = v]
InBuf(buf, i) == 0 <= i /\ i < Len(buf)

\* all sequences of length len over the set S
SeqsOf(S, len) == [1..len -> S]
Fill(len, v) == [k \in 1..len |-> v]

----------------------------------------------------------------------------
(* Program constants.                                                       *)

kEngineChannelOutputCount == 2    \* mixxx::kEngineChannelOutputCount (stereo)
StereoChannels == 2               \* mixxx::audio::ChannelCount::stereo()
StemChannels == 8                 \* mixxx::audio::ChannelCount::stem()

----------------------------------------------------------------------------
(* sample.h helpers used by the functions below.                            *)

\* SampleUtil::clear(pBuffer, numSamples): zero the first numSamples samples
clear(pBuffer, numSamples) ==
    [k \in 1..Len(pBuffer) |-> IF k <= numSamples THEN CSAMPLE_ZERO ELSE pBuffer[k]]

\* SampleUtil::copy(pDest, pSrc, numSamples): copy the first numSamples samples
copy(dest, src, numSamples) ==
    [k \in 1..Len(dest) |-> IF k <= numSamples THEN src[k] ELSE dest[k]]

----------------------------------------------------------------------------
(* Analyzer.                                                                *)

RECURSIVE maxAbsAmplitudeLoop(_, _, _, _)
maxAbsAmplitudeLoop(pBuffer, numSamples, i, max) ==
    IF i < numSamples
    THEN LET absValue == RAbs(At(pBuffer, i))
         IN  maxAbsAmplitudeLoop(pBuffer, numSamples, i + 1,
                                 IF RGt(absValue, max) THEN absValue ELSE max)
    ELSE max

\* the start value of the running maximum: the first sample as it is
maxAbsAmplitudeStart(pBuffer) == At(pBuffer, 0)

maxAbsAmplitude(pBuffer, numSamples) ==
    maxAbsAmplitudeLoop(pBuffer, numSamples, 1, maxAbsAmplitudeStart(pBuffer))

----------------------------------------------------------------------------
(* Channel layout transforms: folding to mono.                              *)

RECURSIVE mixChannelSum(_, _, _, _, _)
mixChannelSum(src, i, chCount, ch, acc) ==
    IF ch < chCount
    THEN mixChannelSum(src, i, chCount, ch + 1, RAdd(acc, At(src, i * chCount + ch)))
    ELSE acc

\* a fold that forgets to scale the channel sum
MutMixScale(chCount) == CSAMPLE_GAIN_ONE

\* mixScale = CSAMPLE_GAIN_ONE / (CSAMPLE_GAIN_ONE * chCount)
mixScaleOf(chCount) == RDiv(CSAMPLE_GAIN_ONE, RMul(CSAMPLE_GAIN_ONE, R(chCount)))

RECURSIVE mixMultichannelToMonoLoop(_, _, _, _, _)
mixMultichannelToMonoLoop(dest, src, numSamples, chCount, i) ==
    IF i < numSamples \div chCount
    THEN mixMultichannelToMonoLoop(
             Put(dest, i, RMul(mixChannelSum(src, i, chCount, 0, CSAMPLE_ZERO),
                               mixScaleOf(chCount))),
             src, numSamples, chCount, i + 1)
    ELSE dest

mixMultichannelToMono(dest, src, numSamples) ==
    mixMultichannelToMonoLoop(dest, src, numSamples, kEngineChannelOutputCount, 0)

----------------------------------------------------------------------------
(* Gain engine: linearly ramped gain.                                       *)

\* a ramp that divides by the number of sample quadruples
MutRampDivisor(numSamples) == numSamples \div 4

\* the integer divisor numSamples / 2 of the gain-delta division
rampDivisor(numSamples) == numSamples \div 2

\* gain_delta = (new_gain - old_gain) / CSAMPLE_GAIN(numSamples / 2)
gainDelta(old_gain, new_gain, numSamples) ==
    RDiv(RSub(new_gain, old_gain), R(rampDivisor(numSamples)))

\* a ramp that starts at old_gain instead of one step past it
MutStartGain(old_gain, gain_delta) == old_gain

\* start_gain = old_gain + gain_delta
startGain(old_gain, gain_delta) == RAdd(old_gain, gain_delta)

\* gain = start_gain + gain_delta * i, the gain of stereo frame i
rampGain(old_gain, gain_delta, i) ==
    RAdd(startGain(old_gain, gain_delta), RMul(gain_delta, R(i)))

\* the gains of the frames 0 .. numSamples/2 - 1, in loop order
rampGains(old_gain, new_gain, numSamples) ==
    LET gain_delta == gainDelta(old_gain, new_gain, numSamples)
    IN  [k \in 1..(numSamples \div 2) |-> rampGain(old_gain, gain_delta, k - 1)]

RECURSIVE applyRampLoop(_, _, _, _, _)
applyRampLoop(pBuffer, old_gain, gain_delta, numSamples, i) ==
    IF i < numSamples \div 2
    THEN LET gain == rampGain(old_gain, gain_delta, i)
             b1 == Put(pBuffer, i * 2, RMul(At(pBuffer, i * 2), gain))
             b2 == Put(b1, i * 2 + 1, RMul(At(b1, i * 2 + 1), gain))
         IN  applyRampLoop(b2, old_gain, gain_delta, numSamples, i + 1)
    ELSE pBuffer

RECURSIVE applyFlatLoop(_, _, _, _)
applyFlatLoop(pBuffer, gain, numSamples, i) ==
    IF i < numSamples
    THEN applyFlatLoop(Put(pBuffer, i, RMul(At(pBuffer, i), gain)), gain, numSamples, i + 1)
    ELSE pBuffer

applyRampingGain(pBuffer, old_gain, new_gain, numSamples) ==
    IF old_gain = CSAMPLE_GAIN_ONE /\ new_gain = CSAMPLE_GAIN_ONE THEN pBuffer
    ELSE IF old_gain = CSAMPLE_GAIN_ZERO /\ new_gain = CSAMPLE_GAIN_ZERO
    THEN clear(pBuffer, numSamples)
    ELSE LET gain_delta == gainDelta(old_gain, new_gain, numSamples)
         IN  IF gain_delta # R(0)
             THEN applyRampLoop(pBuffer, old_gain, gain_delta, numSamples, 0)
             ELSE applyFlatLoop(pBuffer, old_gain, numSamples, 0)

\* whether applyRampingGain reaches its division, and whether it then ramps
applyRampingGainDivides(old_gain, new_gain) ==
    /\ ~(old_gain = CSAMPLE_GAIN_ONE /\ new_gain = CSAMPLE_GAIN_ONE)
    /\ ~(old_gain = CSAMPLE_GAIN_ZERO /\ new_gain = CSAMPLE_GAIN_ZERO)

RECURSIVE copyRampLoop(_, _, _, _, _, _)
copyRampLoop(dst, src, old_gain, gain_delta, numSamples, i) ==
    IF i < numSamples \div 2
    THEN LET gain == rampGain(old_gain, gain_delta, i)
             d1 == Put(dst, i * 2, RMul(At(src, i * 2), gain))
             d2 == Put(d1, i * 2 + 1, RMul(At(src, i * 2 + 1), gain))
         IN  copyRampLoop(d2, src, old_gain, gain_delta, numSamples, i + 1)
    ELSE dst

RECURSIVE copyFlatLoop(_, _, _, _, _)
copyFlatLoop(dst, src, gain, numSamples, i) ==
    IF i < numSamples
    THEN copyFlatLoop(Put(dst, i, RMul(At(src, i), gain)), src, gain, numSamples, i + 1)
    ELSE dst

copyWithRampingGain(dst, src, old_gain, new_gain, numSamples) ==
    IF old_gain = CSAMPLE_GAIN_ONE /\ new_gain = CSAMPLE_GAIN_ONE
    THEN copy(dst, src, numSamples)
    ELSE IF old_gain = CSAMPLE_GAIN_ZERO /\ new_gain = CSAMPLE_GAIN_ZERO
    THEN clear(dst, numSamples)
    ELSE LET gain_delta == gainDelta(old_gain, new_gain, numSamples)
         IN  IF gain_delta # R(0)
             THEN copyRampLoop(dst, src, old_gain, gain_delta, numSamples, 0)
             ELSE copyFlatLoop(dst, src, old_gain, numSamples, 0)

\* the gain copyWithRampingNormalization computes and returns
normalizationGain(dst, src, targetAmplitude, numSamples) ==
    LET numMonoSamples == numSamples \div kEngineChannelOutputCount
        mono == mixMultichannelToMono(dst, src, numSamples)
        maxAmplitude == maxAbsAmplitude(mono, numMonoSamples)
    IN  IF maxAmplitude = CSAMPLE_ZERO THEN R(1)
        ELSE RDiv(targetAmplitude, maxAmplitude)

\* the destination buffer copyWithRampingNormalization leaves
copyWithRampingNormalization(dst, src, old_gain, targetAmplitude, numSamples) ==
    copyWithRampingGain(mixMultichannelToMono(dst, src, numSamples), src, old_gain,
                        normalizationGain(dst, src, targetAmplitude, numSamples),
                        numSamples)

----------------------------------------------------------------------------
(* Calls of the analyzer, the mono fold and the normalizing ramp copy.      *)

MaxSamples == 4      \* longest buffer of the analyzer calls, in samples
MaxAmp == 1          \* samples are drawn from -MaxAmp .. MaxAmp

AnalyzerSamples == {R(v) : v \in -MaxAmp..MaxAmp}
AnalyzerGains == {R(0), Q(1, 2), R(1)}       \* old_gain of the normalizing copy
AnalyzerTargets == {Q(1, 2), R(1)}           \* targetAmplitude

NoArgs == [numSamples |-> 0]

InitIdle ==
    /\ op = "idle"
    /\ args = NoArgs
    /\ ret = NoValue
    /\ gains = <<>>
    /\ divisor = -1

InitNoFixed == pFixed = <<>> /\ pFixed0 = <<>>
NoBuild == [kAlignment |-> 16, pointerSize |-> 8, maxAlign |-> 16, env |-> "none"]
NoRelease == [buffer |-> 0, passed |-> -1, origin |-> 0, blocks |-> 0]
InitNoMemory ==
    build = NoBuild /\ heap = {} /\ mem = <<>> /\ bufs = {} /\ released = NoRelease

InitAnalyzer ==
    /\ InitIdle /\ InitNoFixed /\ InitNoMemory
    /\ \E n \in 1..MaxSamples :
          /\ pSrc \in SeqsOf(AnalyzerSamples, n)
          /\ pDest \in {Fill(n, CSAMPLE_ZERO), Fill(n, R(MaxAmp))}
    /\ pDest0 = pDest

CallMaxAbsAmplitude ==
    /\ op = "idle"
    /\ \E n \in 1..Len(pSrc) :
          /\ op' = "maxAbsAmplitude"
          /\ args' = [numSamples |-> n]
          /\ ret' = maxAbsAmplitude(pSrc, n)
    /\ UNCHANGED <<pDest, pSrc, pDest0, gains, divisor>>
    /\ UNCHANGED fixVars /\ UNCHANGED memVars

CallMixMultichannelToMono ==
    /\ op = "idle"
    /\ \E n \in 0..Len(pSrc) :
          /\ op' = "mixMultichannelToMono"
          /\ args' = [numSamples |-> n]
          /\ pDest' = mixMultichannelToMono(pDest, pSrc, n)
    /\ UNCHANGED <<pSrc, pDest0, ret, gains, divisor>>
    /\ UNCHANGED fixVars /\ UNCHANGED memVars

\* called with whole stereo frames: numSamples is a positive multiple of 2
CallCopyWithRampingNormalization ==
    /\ op = "idle"
    /\ \E n \in 2..Len(pSrc), old_gain \in AnalyzerGains,
          targetAmplitude \in AnalyzerTargets :
          /\ n % kEngineChannelOutputCount = 0
          /\ op' = "copyWithRampingNormalization"
          /\ args' = [numSamples |-> n, old_gain |-> old_gain,
                      targetAmplitude |-> targetAmplitude]
          /\ ret' = normalizationGain(pDest, pSrc, targetAmplitude, n)
          /\ pDest' = copyWithRampingNormalization(pDest, pSrc, old_gain,
                                                   targetAmplitude, n)
    /\ UNCHANGED <<pSrc, pDest0, gains, divisor>>
    /\ UNCHANGED fixVars /\ UNCHANGED memVars

NextAnalyzer ==
    \/ CallMaxAbsAmplitude
    \/ CallMixMultichannelToMono
    \/ CallCopyWithRampingNormalization

SpecAnalyzer == InitAnalyzer /\ [][NextAnalyzer]_vars

\* the largest |buf[i]| over i in 0 .. n-1 (n >= 1)
PeakAbs(buf, n) ==
    CHOOSE m \in {RAbs(buf[k]) : k \in 1..n} :
        \A k \in 1..n : RLe(RAbs(buf[k]), m)

\* the mean of the chCount channel values of frame i
FrameMean(buf, i, chCount) ==
    RDiv(mixChannelSum(buf, i, chCount, 0, R(0)), R(chCount))

\* C1: maxAbsAmplitude(buffer, n) returns the maximum of |buffer[i]| over
\* i in 0..n-1 for every buffer with n >= 1, also when the first sample is
\* negative and when n = 1.
C1_MaxAbsIsPeak ==
    op = "maxAbsAmplitude" => ret = PeakAbs(pSrc, args.numSamples)

\* C5: copyWithRampingNormalization returns targetAmplitude / peak, peak being
\* the largest absolute value of the mono-folded frames of src (1 when the
\* peak is zero), and dest is the ramp copy of src from oldGain to that gain.
C5_NormalizationGain ==
    op = "copyWithRampingNormalization" =>
        LET n == args.numSamples
            mono == [k \in 1..(n \div 2) |-> FrameMean(pSrc, k - 1, 2)]
            peak == PeakAbs(mono, n \div 2)
        IN  /\ ret = IF peak = R(0) THEN R(1) ELSE RDiv(args.targetAmplitude, peak)
            /\ pDest = copyWithRampingGain(pDest0, pSrc, args.old_gain, ret, n)

\* C9: mixMultichannelToMono writes, for every frame i, dest[i] = the mean of
\* the channel values of frame i of src, all-zero and all-equal frames included.
C9_MonoIsFrameMean ==
    op = "mixMultichannelToMono" =>
        /\ \A i \in 0..(args.numSamples \div kEngineChannelOutputCount) - 1 :
              At(pDest, i) = FrameMean(pSrc, i, kEngineChannelOutputCount)
        /\ \A i \in (args.numSamples \div kEngineChannelOutputCount)..Len(pDest) - 1 :
              At(pDest, i) = At(pDest0, i)

\* a fold of two frames: one with unequal channels, one all equal and nonzero
C9_Witness ==
    /\ op = "mixMultichannelToMono"
    /\ args.numSamples = 4
    /\ At(pSrc, 0) # At(pSrc, 1)
    /\ At(pSrc, 2) = At(pSrc, 3) /\ At(pSrc, 2) # R(0)
    /\ At(pDest, 0) = Q(1, 2) /\ At(pDest, 1) = At(pSrc, 2)

----------------------------------------------------------------------------
(* Calls of the gain engine.                                                *)

GainMaxFrames == 2   \* longest buffer of the gain calls, in stereo frames

GainSamples == {R(-1), R(0), R(2)}
GainValues == {R(-1), R(0), Q(1, 2), R(1), R(2)}
NoDivision == -1     \* divisor: the call did not reach its division

InitGain ==
    /\ InitIdle /\ InitNoFixed /\ InitNoMemory
    /\ \E frames \in 1..GainMaxFrames : pDest \in SeqsOf(GainSamples, 2 * frames)
    /\ pDest0 = pDest
    /\ pSrc = <<>>

\* numSamples is the length of the buffer
CallApplyRampingGain ==
    /\ op = "idle"
    /\ \E old_gain \in GainValues, new_gain \in GainValues :
          LET n == Len(pDest)
              divides == applyRampingGainDivides(old_gain, new_gain)
          IN  /\ op' = "applyRampingGain"
              /\ args' = [numSamples |-> n, old_gain |-> old_gain,
                          new_gain |-> new_gain]
              /\ pDest' = applyRampingGain(pDest, old_gain, new_gain, n)
              /\ divisor' = IF divides THEN rampDivisor(n) ELSE NoDivision
              /\ gains' = IF ~divides THEN <<>>
                          ELSE IF gainDelta(old_gain, new_gain, n) # R(0)
                          THEN rampGains(old_gain, new_gain, n)
                          ELSE Fill(n \div 2, old_gain)
    /\ UNCHANGED <<pSrc, pDest0, ret>>
    /\ UNCHANGED fixVars /\ UNCHANGED memVars

NextGain ==
    \/ CallApplyRampingGain

SpecGain == InitGain /\ [][NextGain]_vars

\* the ramp step d = (g1 - g0) / (n/2) of a call with whole frames
RampStep(g0, g1, n) == Q((g1[1] * g0[2] - g0[1] * g1[2]) * 2, g1[2] * g0[2] * n)

\* a ramping call of applyRampingGain: even n >= 2 and g1 # g0
RampingCall ==
    /\ op = "applyRampingGain"
    /\ args.numSamples >= 2 /\ args.numSamples % 2 = 0
    /\ args.new_gain # args.old_gain

\* every frame i is multiplied by g0 + d * (i + 1)
FramesFollowRamp ==
    LET n == args.numSamples
        d == RampStep(args.old_gain, args.new_gain, n)
    IN  /\ Len(gains) = n \div 2
        /\ \A i \in 0..(n \div 2) - 1 :
              /\ gains[i + 1] = RAdd(args.old_gain, RMul(d, R(i + 1)))
              /\ At(pDest, 2 * i) = RMul(At(pDest0, 2 * i), gains[i + 1])
              /\ At(pDest, 2 * i + 1) = RMul(At(pDest0, 2 * i + 1), gains[i + 1])

\* C2 as stated: the gains follow the ramp with step d, the gain of the first
\* frame differs from g0 by exactly one step and the gain of the last frame
\* differs from g1 by exactly one step.
C2_LastFrameOneStepShort ==
    RampingCall =>
        LET n == args.numSamples
            d == RampStep(args.old_gain, args.new_gain, n)
        IN  /\ FramesFollowRamp
            /\ RSub(gains[1], args.old_gain) = d
            /\ RSub(args.new_gain, gains[n \div 2]) = d

\* C2 (amended): the gains follow the ramp with step d, the gain of the first
\* frame differs from g0 by exactly one step d, and the gain of the last frame
\* is g1 itself.
C2_RampEndsAtNewGain ==
    RampingCall =>
        LET n == args.numSamples
            d == RampStep(args.old_gain, args.new_gain, n)
        IN  /\ FramesFollowRamp
            /\ RSub(gains[1], args.old_gain) = d
            /\ gains[n \div 2] = args.new_gain

\* a ramp over two frames from 0 to 1 on nonzero samples: gains 1/2 and 1
C2_Witness ==
    /\ RampingCall
    /\ args.numSamples = 4
    /\ args.old_gain = R(0) /\ args.new_gain = R(1)
    /\ gains = <<Q(1, 2), R(1)>>
    /\ pDest0 = <<R(2), R(-1), R(2), R(2)>>
    /\ pDest = <<R(1), Q(-1, 2), R(2), R(2)>>

----------------------------------------------------------------------------
(* Crossfader.                                                              *)

\* the integer divisor numSamples / groupSize of the cross_inc division
crossDivisor(numSamples, groupSize) == numSamples \div groupSize

\* cross_inc = CSAMPLE_GAIN_ONE / CSAMPLE_GAIN(numSamples / groupSize)
crossInc(numSamples, groupSize) ==
    RDiv(CSAMPLE_GAIN_ONE, R(crossDivisor(numSamples, groupSize)))

\* cross_mix = cross_inc * i
crossMix(cross_inc, i) == RMul(cross_inc, R(i))

\* a fade-out that weights the two buffers the wrong way round
MutFadeOutAt(dst, src, idx, cross_mix) ==
    Put(dst, idx, RAdd(RMul(At(dst, idx), cross_mix),
                       RMul(At(src, idx), RSub(CSAMPLE_GAIN_ONE, cross_mix))))

\* pDestSrcFadeOut[idx] *= (1 - cross_mix); pDestSrcFadeOut[idx] += pSrcFadeIn[idx] * cross_mix
fadeOutAt(dst, src, idx, cross_mix) ==
    LET d1 == Put(dst, idx, RMul(At(dst, idx), RSub(CSAMPLE_GAIN_ONE, cross_mix)))
    IN  Put(d1, idx, RAdd(At(d1, idx), RMul(At(src, idx), cross_mix)))

\* pDestSrcFadeIn[idx] *= cross_mix; pDestSrcFadeIn[idx] += pSrcFadeOut[idx] * (1 - cross_mix)
fadeInAt(dst, src, idx, cross_mix) ==
    LET d1 == Put(dst, idx, RMul(At(dst, idx), cross_mix))
    IN  Put(d1, idx, RAdd(At(d1, idx),
                          RMul(At(src, idx), RSub(CSAMPLE_GAIN_ONE, cross_mix))))

fadeAt(dst, src, idx, cross_mix, fadeIn) ==
    IF fadeIn THEN fadeInAt(dst, src, idx, cross_mix)
    ELSE fadeOutAt(dst, src, idx, cross_mix)

\* one loop over the frames that fades the sample at offset `off` of each frame
RECURSIVE crossfadeColumn(_, _, _, _, _, _, _, _)
crossfadeColumn(dst, src, cross_inc, numFrames, group, off, fadeIn, i) ==
    IF i < numFrames
    THEN crossfadeColumn(
             fadeAt(dst, src, i * group + off, crossMix(cross_inc, i), fadeIn),
             src, cross_inc, numFrames, group, off, fadeIn, i + 1)
    ELSE dst

\* the samples chIdx .. group-1 of one frame, faded with the frame's cross_mix
RECURSIVE crossfadeFrame(_, _, _, _, _, _, _)
crossfadeFrame(dst, src, cross_mix, group, i, fadeIn, chIdx) ==
    IF chIdx < group
    THEN crossfadeFrame(fadeAt(dst, src, i * group + chIdx, cross_mix, fadeIn),
                        src, cross_mix, group, i, fadeIn, chIdx + 1)
    ELSE dst

\* one loop over the frames that fades all samples of each frame
RECURSIVE crossfadeFrames(_, _, _, _, _, _, _)
crossfadeFrames(dst, src, cross_inc, numFrames, group, fadeIn, i) ==
    IF i < numFrames
    THEN crossfadeFrames(
             crossfadeFrame(dst, src, crossMix(cross_inc, i), group, i, fadeIn, 0),
             src, cross_inc, numFrames, group, fadeIn, i + 1)
    ELSE dst

\* a stereo path whose second loop runs one frame ahead in its cross_mix
MutCrossfadeStereoRightAhead(dst, src, numSamples, fadeIn) ==
    LET cross_inc == crossInc(numSamples, 2)
        left == crossfadeColumn(dst, src, cross_inc, numSamples \div 2, 2, 0, fadeIn, 0)
    IN  [k \in 1..Len(dst) |->
            IF k % 2 = 0 /\ k <= 2 * (numSamples \div 2)
            THEN At(fadeAt(dst, src, k - 1, crossMix(cross_inc, k \div 2), fadeIn), k - 1)
            ELSE left[k]]

crossfadeStereo(dst, src, numSamples, fadeIn) ==
    LET cross_inc == crossInc(numSamples, 2)
        left == crossfadeColumn(dst, src, cross_inc, numSamples \div 2, 2, 0, fadeIn, 0)
    IN  crossfadeColumn(left, src, cross_inc, numSamples \div 2, 2, 1, fadeIn, 0)

crossfadeStem(dst, src, numSamples, fadeIn) ==
    crossfadeFrames(dst, src, crossInc(numSamples, 8), numSamples \div 8, 8, fadeIn, 0)

crossfadeGeneric(dst, src, numSamples, channelCount, fadeIn) ==
    LET numFrame == numSamples \div channelCount
    IN  crossfadeFrames(dst, src, crossInc(numSamples, channelCount), numFrame,
                        channelCount, fadeIn, 0)

linearCrossfadeStereoBuffersOut(dst, src, numSamples) ==
    crossfadeStereo(dst, src, numSamples, FALSE)

linearCrossfadeStemBuffersOut(dst, src, numSamples) ==
    crossfadeStem(dst, src, numSamples, FALSE)

linearCrossfadeBuffersOut(dst, src, numSamples, channelCount) ==
    IF channelCount = StereoChannels
    THEN linearCrossfadeStereoBuffersOut(dst, src, numSamples)
    ELSE IF channelCount = StemChannels
    THEN linearCrossfadeStemBuffersOut(dst, src, numSamples)
    ELSE crossfadeGeneric(dst, src, numSamples, channelCount, FALSE)

linearCrossfadeStereoBuffersIn(dst, src, numSamples) ==
    crossfadeStereo(dst, src, numSamples, TRUE)

linearCrossfadeStemBuffersIn(dst, src, numSamples) ==
    crossfadeStem(dst, src, numSamples, TRUE)

linearCrossfadeBuffersIn(dst, src, numSamples, channelCount) ==
    IF channelCount = StereoChannels
    THEN linearCrossfadeStereoBuffersIn(dst, src, numSamples)
    ELSE IF channelCount = StemChannels
    THEN linearCrossfadeStemBuffersIn(dst, src, numSamples)
    ELSE crossfadeGeneric(dst, src, numSamples, channelCount, TRUE)

\* the group size whose quotient divides CSAMPLE_GAIN_ONE in the dispatched path
crossGroup(channelCount) ==
    IF channelCount = StereoChannels THEN 2
    ELSE IF channelCount = StemChannels THEN 8
    ELSE channelCount

\* the cross_mix values of the frames, in loop order
crossMixes(numSamples, channelCount) ==
    LET group == crossGroup(channelCount)
    IN  [k \in 1..(numSamples \div group) |->
            crossMix(crossInc(numSamples, group), k - 1)]

----------------------------------------------------------------------------
(* Calls of the crossfader.                                                 *)

XfMaxFrames == 2     \* longest crossfaded buffer, in frames
XfPattern == 2       \* the buffers repeat a pattern of at most this length

XfSamples == {R(-1), R(2)}
XfLayouts == {1, StereoChannels, 3, StemChannels}    \* layouts the buffers are sized for
MaxChannelCount == 8   \* channelCount arguments are drawn from 1 .. MaxChannelCount

\* the buffer of length len that repeats the pattern pat
Tile(pat, len) == [k \in 1..len |-> pat[((k - 1) % Len(pat)) + 1]]

XfPatterns == UNION {SeqsOf(XfSamples, p) : p \in 1..XfPattern}

InitCrossfade ==
    /\ InitIdle /\ InitNoFixed /\ InitNoMemory
    /\ \E c \in XfLayouts, frames \in 1..XfMaxFrames, a \in XfPatterns, b \in XfPatterns :
          /\ pDest = Tile(a, c * frames)
          /\ pSrc = Tile(b, c * frames)
    /\ pDest0 = pDest

\* numSamples is the length of the two buffers
CallLinearCrossfadeBuffersOut ==
    /\ op = "idle"
    /\ \E channelCount \in 1..MaxChannelCount :
          LET n == Len(pDest)
          IN  /\ op' = "linearCrossfadeBuffersOut"
              /\ args' = [numSamples |-> n, channelCount |-> channelCount]
              /\ pDest' = linearCrossfadeBuffersOut(pDest, pSrc, n, channelCount)
              /\ divisor' = crossDivisor(n, crossGroup(channelCount))
              /\ gains' = crossMixes(n, channelCount)
    /\ UNCHANGED <<pSrc, pDest0, ret>>
    /\ UNCHANGED fixVars /\ UNCHANGED memVars

CallLinearCrossfadeBuffersIn ==
    /\ op = "idle"
    /\ \E channelCount \in 1..MaxChannelCount :
          LET n == Len(pDest)
          IN  /\ op' = "linearCrossfadeBuffersIn"
              /\ args' = [numSamples |-> n, channelCount |-> channelCount]
              /\ pDest' = linearCrossfadeBuffersIn(pDest, pSrc, n, channelCount)
              /\ divisor' = crossDivisor(n, crossGroup(channelCount))
              /\ gains' = crossMixes(n, channelCount)
    /\ UNCHANGED <<pSrc, pDest0, ret>>
    /\ UNCHANGED fixVars /\ UNCHANGED memVars

NextCrossfade ==
    \/ CallLinearCrossfadeBuffersOut
    \/ CallLinearCrossfadeBuffersIn

SpecCrossfade == InitCrossfade /\ [][NextCrossfade]_vars

\* a crossfade call whose channel count divides the buffer length
WholeFrameCrossfade ==
    /\ op \in {"linearCrossfadeBuffersOut", "linearCrossfadeBuffersIn"}
    /\ args.numSamples % args.channelCount = 0

\* the original content of the fade-out buffer A and of the fade-in buffer B
FadeOutOrig == IF op = "linearCrossfadeBuffersOut" THEN pDest0 ELSE pSrc
FadeInOrig == IF op = "linearCrossfadeBuffersOut" THEN pSrc ELSE pDest0

\* wA * A_orig + wB * B_orig at the 0-based sample position k
Blend(wA, wB, k) == RAdd(RMul(wA, At(FadeOutOrig, k)), RMul(wB, At(FadeInOrig, k)))

\* C3 as stated: Out on a copy of A with B as fade-in, and In on a copy of B
\* with A as fade-out, leave mix*A_orig + (1-mix)*B_orig at every sample of
\* frame i, with mix = i / numFrames.
C3_BlendWeightsAsStated ==
    WholeFrameCrossfade =>
        LET c == args.channelCount
            numFrames == args.numSamples \div c
        IN  \A i \in 0..numFrames - 1 : \A ch \in 0..c - 1 :
                At(pDest, i * c + ch) =
                    Blend(Q(i, numFrames), Q(numFrames - i, numFrames), i * c + ch)

\* C3 (amended): both calls leave (1-mix)*A_orig + mix*B_orig at every sample
\* of frame i, with mix = i / numFrames, A the fade-out and B the fade-in buffer.
C3_CrossfadeBlend ==
    WholeFrameCrossfade =>
        LET c == args.channelCount
            numFrames == args.numSamples \div c
        IN  \A i \in 0..numFrames - 1 : \A ch \in 0..c - 1 :
                At(pDest, i * c + ch) =
                    Blend(Q(numFrames - i, numFrames), Q(i, numFrames), i * c + ch)

\* a stereo fade-out of two frames: the second frame is the mean of A and B
C3_Witness ==
    /\ op = "linearCrossfadeBuffersOut"
    /\ args.channelCount = 2 /\ args.numSamples = 4
    /\ At(pDest0, 2) = R(-1) /\ At(pSrc, 2) = R(2)
    /\ At(pDest, 2) = Q(1, 2)
    /\ At(pDest, 0) = At(pDest0, 0) /\ At(pDest0, 0) # At(pSrc, 0)

----------------------------------------------------------------------------
(* Fixed-arity ramped copy.                                                 *)

\* copy1WithRampingGain reaches its division unless both gains are zero
copy1WithRampingGainDivides(gain0in, gain0out) ==
    ~(gain0in = CSAMPLE_GAIN_ZERO /\ gain0out = CSAMPLE_GAIN_ZERO)

copy1WithRampingGain(dst, pSrc0, gain0in, gain0out, iNumSamples) ==
    IF gain0in = CSAMPLE_GAIN_ZERO /\ gain0out = CSAMPLE_GAIN_ZERO
    THEN clear(dst, iNumSamples)
    ELSE LET gain_delta0 == gainDelta(gain0in, gain0out, iNumSamples)
         IN  copyRampLoop(dst, pSrc0, gain0in, gain_delta0, iNumSamples, 0)

----------------------------------------------------------------------------
(* Calls of the ramping-gain and crossfade functions on buffers of every    *)
(* length, whole frames or not.                                             *)

DivMaxLen == 9       \* longest buffer, in samples

InitDivisor ==
    /\ InitIdle /\ InitNoFixed /\ InitNoMemory
    /\ \E n \in 0..DivMaxLen :
          /\ pDest = Fill(n, R(2))
          /\ pSrc = Fill(n, R(-1))
    /\ pDest0 = pDest

CallCopyWithRampingGain ==
    /\ op = "idle"
    /\ \E old_gain \in GainValues, new_gain \in GainValues :
          LET n == Len(pDest)
              divides == applyRampingGainDivides(old_gain, new_gain)
          IN  /\ op' = "copyWithRampingGain"
              /\ args' = [numSamples |-> n, old_gain |-> old_gain,
                          new_gain |-> new_gain]
              /\ pDest' = copyWithRampingGain(pDest, pSrc, old_gain, new_gain, n)
              /\ divisor' = IF divides THEN rampDivisor(n) ELSE NoDivision
              /\ gains' = IF ~divides THEN <<>>
                          ELSE IF gainDelta(old_gain, new_gain, n) # R(0)
                          THEN rampGains(old_gain, new_gain, n)
                          ELSE Fill(n \div 2, old_gain)
    /\ UNCHANGED <<pSrc, pDest0, ret>>
    /\ UNCHANGED fixVars /\ UNCHANGED memVars

CallCopy1WithRampingGain ==
    /\ op = "idle"
    /\ \E gain0in \in GainValues, gain0out \in GainValues :
          LET n == Len(pDest)
              divides == copy1WithRampingGainDivides(gain0in, gain0out)
          IN  /\ op' = "copy1WithRampingGain"
              /\ args' = [numSamples |-> n, old_gain |-> gain0in,
                          new_gain |-> gain0out]
              /\ pDest' = copy1WithRampingGain(pDest, pSrc, gain0in, gain0out, n)
              /\ divisor' = IF divides THEN rampDivisor(n) ELSE NoDivision
              /\ gains' = IF divides THEN rampGains(gain0in, gain0out, n) ELSE <<>>
    /\ UNCHANGED <<pSrc, pDest0, ret>>
    /\ UNCHANGED fixVars /\ UNCHANGED memVars

NextDivisor ==
    \/ CallApplyRampingGain
    \/ CallCopyWithRampingGain
    \/ CallCopy1WithRampingGain
    \/ CallLinearCrossfadeBuffersOut
    \/ CallLinearCrossfadeBuffersIn

SpecDivisor == InitDivisor /\ [][NextDivisor]_vars

RampingGainOps == {"applyRampingGain", "copyWithRampingGain", "copy1WithRampingGain"}
CrossfadeOps == {"linearCrossfadeBuffersOut", "linearCrossfadeBuffersIn"}

\* a ramping-gain or crossfade call that reached its division
DivisionReached ==
    /\ op \in RampingGainOps \cup CrossfadeOps
    /\ divisor # NoDivision

\* the number of samples per step of the ramp: the frame size the call divides by
FrameSize == IF op \in RampingGainOps THEN 2 ELSE crossGroup(args.channelCount)

\* C4 as stated: with nonzero numSamples the divisor of the gain delta or of
\* the crossfade increment is nonzero whenever the division is reached.
C4_NonzeroSamplesSuffice ==
    (DivisionReached /\ args.numSamples # 0) => divisor # 0

\* C4 (amended): when numSamples is a positive multiple of the frame size the
\* call divides by (2 for the ramping-gain functions and the stereo crossfade,
\* 8 for the stem crossfade, channelCount otherwise), the divisor is nonzero
\* whenever the division is reached.
C4_WholeFramesDivisorNonzero ==
    (DivisionReached /\ args.numSamples > 0 /\ args.numSamples % FrameSize = 0)
        => divisor # 0 /\ divisor = args.numSamples \div FrameSize

\* one stereo frame ramped from 0 to 1: the division is reached with divisor 1
C4_Witness ==
    /\ op = "applyRampingGain"
    /\ args.numSamples = 2
    /\ args.old_gain = R(0) /\ args.new_gain = R(1)
    /\ divisor = 1
    /\ gains = <<R(1)>>

----------------------------------------------------------------------------
(* Format converter.                                                        *)

SAMPLE_MINIMUM == -32768      \* lowest int16_t sample
SAMPLE_MAXIMUM == 32767       \* highest int16_t sample

\* kConversionFactor = SAMPLE_MINIMUM * -1.0f
kConversionFactor == RMul(R(SAMPLE_MINIMUM), R(-1))

\* a back conversion that scales by the highest sample instead
MutFloatToFixedFactor == R(SAMPLE_MAXIMUM)

\* the kConversionFactor of convertFloat32ToS16
kFloatToFixedFactor == RMul(R(SAMPLE_MINIMUM), R(-1))

\* math_clamp(value, min, max)
math_clamp(value, min, max) ==
    IF RGt(value, max) THEN max ELSE IF RLt(value, min) THEN min ELSE value

\* static_cast<SAMPLE>(x) of a float in the range of SAMPLE: truncation toward zero
castToSAMPLE(x) == Sign(x[1]) * (Abs(x[1]) \div x[2])

\* pDest[i] = CSAMPLE(pSrc[i]) / kConversionFactor
convertS16ToFloat32(dst, src, numSamples) ==
    [k \in 1..Len(dst) |->
        IF k <= numSamples THEN RDiv(R(src[k]), kConversionFactor) ELSE dst[k]]

\* pDest[i] = static_cast<SAMPLE>(math_clamp(pSrc[i] * kConversionFactor, MIN, MAX))
convertFloat32ToS16(dst, src, numSamples) ==
    [k \in 1..Len(dst) |->
        IF k <= numSamples
        THEN castToSAMPLE(math_clamp(RMul(src[k], kFloatToFixedFactor),
                                     R(SAMPLE_MINIMUM), R(SAMPLE_MAXIMUM)))
        ELSE dst[k]]

----------------------------------------------------------------------------
(* Calls of the format converter.                                           *)

ConvMaxLen == 2      \* longest buffer of several fixed-point samples

AllFixedSamples == SAMPLE_MINIMUM..SAMPLE_MAXIMUM
EdgeFixedSamples == {SAMPLE_MINIMUM, SAMPLE_MINIMUM + 1, -1, 0, 1,
                     SAMPLE_MAXIMUM - 1, SAMPLE_MAXIMUM}
ConvFloats == {R(-2), R(-1), Q(-1, 2), Q(1, 65536), Q(32767, 32768), R(1), R(2)}

\* either a fixed-point buffer to convert to float (every single sample, and
\* short buffers of edge samples), or a float buffer to convert to fixed point
InitConvert ==
    /\ InitIdle /\ InitNoMemory
    /\ pSrc = <<>>
    /\ \/ /\ \/ pFixed \in SeqsOf(AllFixedSamples, 1)
             \/ \E n \in 2..ConvMaxLen : pFixed \in SeqsOf(EdgeFixedSamples, n)
          /\ pDest = Fill(Len(pFixed), CSAMPLE_ZERO)
       \/ /\ pDest \in SeqsOf(ConvFloats, 1)
          /\ pFixed = Fill(1, 0)
    /\ pFixed0 = pFixed
    /\ pDest0 = pDest

CallConvertS16ToFloat32 ==
    /\ op = "idle"
    /\ op' = "convertS16ToFloat32"
    /\ args' = [numSamples |-> Len(pFixed), after |-> op]
    /\ pDest' = convertS16ToFloat32(pDest, pFixed, Len(pFixed))
    /\ UNCHANGED <<pSrc, pDest0, ret, gains, divisor>>
    /\ UNCHANGED fixVars /\ UNCHANGED memVars

\* on a float buffer the caller supplied, or on the result of convertS16ToFloat32
CallConvertFloat32ToS16 ==
    /\ op \in {"idle", "convertS16ToFloat32"}
    /\ op' = "convertFloat32ToS16"
    /\ args' = [numSamples |-> Len(pDest), after |-> op]
    /\ pFixed' = convertFloat32ToS16(pFixed, pDest, Len(pDest))
    /\ UNCHANGED <<pFixed0, pDest, pSrc, pDest0, ret, gains, divisor>>
    /\ UNCHANGED memVars

NextConvert ==
    \/ CallConvertS16ToFloat32
    \/ CallConvertFloat32ToS16

SpecConvert == InitConvert /\ [][NextConvert]_vars

\* C6: for every fixed-point sample s in SAMPLE_MINIMUM..SAMPLE_MAXIMUM,
\* convertS16ToFloat32 followed by convertFloat32ToS16 yields s again;
\* SAMPLE_MINIMUM maps to exactly -1.0 on the way.
C6_FixedRoundTrip ==
    /\ op = "convertS16ToFloat32" =>
          \A k \in 1..Len(pFixed) :
              /\ pFixed[k] = SAMPLE_MINIMUM => pDest[k] = R(-1)
              /\ RLt(pDest[k], R(1))
    /\ (op = "convertFloat32ToS16" /\ args.after = "convertS16ToFloat32") =>
          pFixed = pFixed0

\* the round trip of the buffer <<SAMPLE_MINIMUM, SAMPLE_MAXIMUM>>
C6_Witness ==
    /\ op = "convertFloat32ToS16" /\ args.after = "convertS16ToFloat32"
    /\ pFixed0 = <<SAMPLE_MINIMUM, SAMPLE_MAXIMUM>>
    /\ pDest = <<R(-1), Q(32767, 32768)>>
    /\ pFixed = <<SAMPLE_MINIMUM, SAMPLE_MAXIMUM>>

----------------------------------------------------------------------------
(* Channel layout transforms: mono to dual mono, reversal.                  *)

\* the in-place duplication done with a forward loop
RECURSIVE MutDoubleMonoForwardLoop(_, _, _)
MutDoubleMonoForwardLoop(pBuffer, numFrames, i) ==
    IF i < numFrames
    THEN LET s == At(pBuffer, i)
         IN  MutDoubleMonoForwardLoop(Put(Put(pBuffer, i * 2, s), i * 2 + 1, s),
                                      numFrames, i + 1)
    ELSE pBuffer

MutDoubleMonoForward(pBuffer, numFrames) ==
    MutDoubleMonoForwardLoop(pBuffer, numFrames, 0)

\* while (0 < i--) { s = pBuffer[i]; pBuffer[i * 2] = s; pBuffer[i * 2 + 1] = s; }
RECURSIVE doubleMonoToDualMonoLoop(_, _)
doubleMonoToDualMonoLoop(pBuffer, i) ==
    IF 0 < i
    THEN LET j == i - 1
             s == At(pBuffer, j)
         IN  doubleMonoToDualMonoLoop(Put(Put(pBuffer, j * 2, s), j * 2 + 1, s), j)
    ELSE pBuffer

doubleMonoToDualMono(pBuffer, numFrames) ==
    doubleMonoToDualMonoLoop(pBuffer, numFrames)

RECURSIVE copyMonoToDualMonoLoop(_, _, _, _)
copyMonoToDualMonoLoop(dst, src, numFrames, i) ==
    IF i < numFrames
    THEN LET s == At(src, i)
         IN  copyMonoToDualMonoLoop(Put(Put(dst, i * 2, s), i * 2 + 1, s),
                                    src, numFrames, i + 1)
    ELSE dst

copyMonoToDualMono(dst, src, numFrames) ==
    copyMonoToDualMonoLoop(dst, src, numFrames, 0)

\* a reversal of the sample order that ignores the frames
MutReverseSamples(pBuffer, numSamples) ==
    [k \in 1..Len(pBuffer) |->
        IF k <= numSamples THEN pBuffer[numSamples + 1 - k] ELSE pBuffer[k]]

RECURSIVE reverseLoop(_, _, _)
reverseLoop(pBuffer, numSamples, j) ==
    IF j < numSamples \div 4
    THEN LET endpos == (numSamples - 1) - j * 2
             temp1 == At(pBuffer, j * 2)
             temp2 == At(pBuffer, j * 2 + 1)
             b1 == Put(pBuffer, j * 2, At(pBuffer, endpos - 1))
             b2 == Put(b1, j * 2 + 1, At(b1, endpos))
             b3 == Put(b2, endpos - 1, temp1)
             b4 == Put(b3, endpos, temp2)
         IN  reverseLoop(b4, numSamples, j + 1)
    ELSE pBuffer

reverse(pBuffer, numSamples) == reverseLoop(pBuffer, numSamples, 0)

----------------------------------------------------------------------------
(* Calls of the layout transforms.                                          *)

LayMaxFrames == 4    \* longest buffer of the layout calls, in stereo frames

LaySamples == {R(0), R(1)}

\* the buffer 1, 2, .., len
Counting(len) == [k \in 1..len |-> R(k)]

\* a stereo-sized buffer; pSrc is the caller's copy of its first half, the
\* mono samples that doubleMonoToDualMono finds at the start of the buffer
InitLayout ==
    /\ InitIdle /\ InitNoFixed /\ InitNoMemory
    /\ \E frames \in 0..LayMaxFrames :
          /\ pDest \in SeqsOf(LaySamples, 2 * frames) \cup {Counting(2 * frames)}
          /\ pSrc = SubSeq(pDest, 1, frames)
    /\ pDest0 = pDest

CallDoubleMonoToDualMono ==
    /\ op = "idle"
    /\ op' = "doubleMonoToDualMono"
    /\ args' = [numSamples |-> Len(pDest), numFrames |-> Len(pDest) \div 2]
    /\ pDest' = doubleMonoToDualMono(pDest, Len(pDest) \div 2)
    /\ UNCHANGED <<pSrc, pDest0, ret, gains, divisor>>
    /\ UNCHANGED fixVars /\ UNCHANGED memVars

CallCopyMonoToDualMono ==
    /\ op = "idle"
    /\ op' = "copyMonoToDualMono"
    /\ args' = [numSamples |-> Len(pDest), numFrames |-> Len(pSrc)]
    /\ pDest' = copyMonoToDualMono(pDest, pSrc, Len(pSrc))
    /\ UNCHANGED <<pSrc, pDest0, ret, gains, divisor>>
    /\ UNCHANGED fixVars /\ UNCHANGED memVars

CallReverse ==
    /\ op = "idle"
    /\ op' = "reverse"
    /\ args' = [numSamples |-> Len(pDest), numFrames |-> Len(pDest) \div 2]
    /\ pDest' = reverse(pDest, Len(pDest))
    /\ UNCHANGED <<pSrc, pDest0, ret, gains, divisor>>
    /\ UNCHANGED fixVars /\ UNCHANGED memVars

NextLayout ==
    \/ CallDoubleMonoToDualMono
    \/ CallCopyMonoToDualMono
    \/ CallReverse

SpecLayout == InitLayout /\ [][NextLayout]_vars

\* C7: doubleMonoToDualMono leaves buffer[2i] = buffer[2i+1] = the original
\* buffer[i] for every i < numFrames, which is what copyMonoToDualMono
\* produces out of place from the same mono samples.
C7_DualMonoInPlace ==
    op \in {"doubleMonoToDualMono", "copyMonoToDualMono"} =>
        /\ Len(pDest) = Len(pDest0)
        /\ \A i \in 0..args.numFrames - 1 :
              /\ At(pDest, 2 * i) = At(pDest0, i)
              /\ At(pDest, 2 * i + 1) = At(pDest0, i)
              /\ At(pDest, 2 * i) = At(pSrc, i)

\* the in-place duplication of the mono samples 1, 2, 3
C7_Witness ==
    /\ op = "doubleMonoToDualMono"
    /\ pDest0 = Counting(6)
    /\ pDest = <<R(1), R(1), R(2), R(2), R(3), R(3)>>

\* C8: reverse leaves frame k equal to the original frame F-1-k, for even and
\* odd F = numSamples / 2, with the two channel values of each frame in their
\* original order.
C8_ReverseKeepsFrames ==
    op = "reverse" =>
        LET F == args.numSamples \div 2
        IN  /\ Len(pDest) = Len(pDest0)
            /\ \A k \in 0..F - 1 :
                  /\ At(pDest, 2 * k) = At(pDest0, 2 * (F - 1 - k))
                  /\ At(pDest, 2 * k + 1) = At(pDest0, 2 * (F - 1 - k) + 1)

\* [1,2,3,4,5,6,7,8] becomes [7,8,5,6,3,4,1,2]
C8_Witness ==
    /\ op = "reverse"
    /\ pDest0 = Counting(8)
    /\ pDest = <<R(7), R(8), R(5), R(6), R(3), R(4), R(1), R(2)>>

----------------------------------------------------------------------------
(* Aligned allocator.                                                       *)
(* Memory is byte addressed; address 0 is NULL.  build fixes what the       *)
(* preprocessor and the target fix: kAlignment (16, or 32 with __AVX__),    *)
(* sizeof(CSAMPLE* ) = sizeof(size_t), alignof(max_align_t), and which of   *)
(* the three branches of alloc/free is compiled ("msvc", "glibcxx",         *)
(* "manual").  std::malloc returns NULL or the base of a fresh block that   *)
(* is aligned to alignof(max_align_t).                                      *)

SizeofCSAMPLE == 4            \* sizeof(CSAMPLE), a float

\* useAlignedAlloc(): alignof(max_align_t) < kAlignment && sizeof(CSAMPLE* ) == sizeof(size_t)
useAlignedAlloc(b) == b.maxAlign < b.kAlignment

\* the over-allocate-and-shift branch is the one compiled and taken
ManualScheme(b) == useAlignedAlloc(b) /\ b.env = "manual"

\* byte k (0 = lowest) of the pointer value v
RECURSIVE ByteOf(_, _)
ByteOf(v, k) == IF k = 0 THEN v % 256 ELSE ByteOf(v \div 256, k - 1)

\* the pointer value of count bytes at addr; the modelled memory ends below
\* address 256, so a value with a nonzero higher byte is the address of no block
RECURSIVE BytesValue(_, _, _)
BytesValue(m, addr, count) ==
    IF count = 1 THEN m[addr]
    ELSE IF m[addr + count - 1] # 0 THEN -1
    ELSE BytesValue(m, addr, count - 1)

\* *((void** )addr) = value
StorePtr(m, addr, value, pointerSize) ==
    [a \in DOMAIN m \cup (addr..addr + pointerSize - 1) |->
        IF a \in addr..addr + pointerSize - 1 THEN ByteOf(value, a - addr) ELSE m[a]]

\* *((void** )addr); bytes nobody wrote give no address of a block
LoadPtr(m, addr, pointerSize) ==
    IF \A a \in addr..addr + pointerSize - 1 : a \in DOMAIN m
    THEN BytesValue(m, addr, pointerSize)
    ELSE -1

\* a shift that rounds up and so keeps a pointer that is already aligned
MutShiftKeepsAligned(pUnaligned, alignment) ==
    IF pUnaligned % alignment = 0 THEN pUnaligned
    ELSE (pUnaligned - (pUnaligned % alignment)) + alignment

\* pAligned = ((size_t)pUnaligned & ~(alignment - 1)) + alignment
shiftAligned(pUnaligned, alignment) ==
    (pUnaligned - (pUnaligned % alignment)) + alignment

\* the address of the slot that holds the original pointer: (void** )pAligned - 1
slotOf(pAligned, pointerSize) == pAligned - pointerSize

\* the bytes the underlying allocator is asked for by alloc(size)
allocBytes(b, size) ==
    IF ~useAlignedAlloc(b) THEN SizeofCSAMPLE * size
    ELSE IF b.env = "msvc" THEN SizeofCSAMPLE * size
    ELSE IF b.env = "glibcxx"
    THEN LET alloc_size == SizeofCSAMPLE * size
         IN  IF alloc_size % b.kAlignment # 0
             THEN alloc_size + (b.kAlignment - (alloc_size % b.kAlignment))
             ELSE alloc_size
    ELSE SizeofCSAMPLE * size + b.kAlignment

\* the alignment the underlying allocator guarantees for that request
allocAlign(b) ==
    IF useAlignedAlloc(b) /\ b.env \in {"msvc", "glibcxx"} THEN b.kAlignment
    ELSE b.maxAlign

\* how many times alloc calls the underlying allocator: once in each branch
allocAttempts(b) ==
    IF ~useAlignedAlloc(b) THEN 1
    ELSE IF b.env = "msvc" THEN 1
    ELSE IF b.env = "glibcxx" THEN 1
    ELSE 1

\* what alloc returns when the underlying allocator returned p (0 = NULL):
\* the manual branch returns NULL before the shift, the others return p
allocResult(b, p) ==
    IF ManualScheme(b)
    THEN IF p = 0 THEN 0 ELSE shiftAligned(p, b.kAlignment)
    ELSE p

\* an alloc whose manual branch stores the original pointer without the
\* NULL test
MutAllocStoreUnchecked(b, m, p) ==
    IF ManualScheme(b)
    THEN StorePtr(m, slotOf(shiftAligned(p, b.kAlignment), b.pointerSize), p,
                  b.pointerSize)
    ELSE m

\* the memory after alloc, when the underlying allocator returned p (0 = NULL)
allocStore(b, m, p) ==
    IF ManualScheme(b)
    THEN IF p = 0 THEN m
         ELSE StorePtr(m, slotOf(shiftAligned(p, b.kAlignment), b.pointerSize), p,
                       b.pointerSize)
    ELSE m

\* a free that hands the buffer itself to the release function
MutFreeArgument(b, m, pBuffer) == pBuffer

\* what free(pBuffer) passes to the underlying release function; -1: no call
freeArgument(b, m, pBuffer) ==
    IF ManualScheme(b)
    THEN IF pBuffer = 0 THEN -1
         ELSE LoadPtr(m, slotOf(pBuffer, b.pointerSize), b.pointerSize)
    ELSE pBuffer

----------------------------------------------------------------------------
(* Calls of the allocator.                                                  *)

MaxAddr == 63            \* the highest address of the modelled memory
MaxAllocSamples == 1     \* alloc is called with size in 0 .. MaxAllocSamples
MaxLive == 2             \* buffers the caller holds at a time

Builds ==
    {b \in [kAlignment : {16, 32}, pointerSize : {4, 8}, maxAlign : {4, 8, 16},
            env : {"msvc", "glibcxx", "manual"}] : b.maxAlign >= b.pointerSize}

BlockRange(blk) == blk.base..(blk.base + blk.len - 1)

\* the bases std::malloc may return for a block of `bytes` bytes: aligned,
\* inside the memory and disjoint from every block that is still allocated
FreshBases(bytes, align) ==
    LET len == IF bytes = 0 THEN 1 ELSE bytes
    IN  {p \in 1..MaxAddr :
            /\ p % align = 0
            /\ p + len - 1 <= MaxAddr
            /\ \A blk \in heap : BlockRange(blk) \cap (p..p + len - 1) = {}}

InitAlloc ==
    /\ InitIdle /\ InitNoFixed
    /\ pDest = <<>> /\ pSrc = <<>> /\ pDest0 = <<>>
    /\ build \in Builds
    /\ heap = {} /\ mem = <<>> /\ bufs = {} /\ released = NoRelease

\* SampleUtil::alloc(size), the underlying allocation succeeding
CallAlloc ==
    /\ Cardinality(bufs) < MaxLive
    /\ \E size \in 0..MaxAllocSamples :
          LET bytes == allocBytes(build, size)
          IN  \E p \in FreshBases(bytes, allocAlign(build)) :
                 /\ op' = "alloc"
                 /\ args' = [numSamples |-> size, underlying |-> p,
                              attempts |-> allocAttempts(build)]
                 /\ ret' = allocResult(build, p)
                 /\ heap' = heap \cup {[base |-> p, len |-> IF bytes = 0 THEN 1 ELSE bytes]}
                 /\ mem' = allocStore(build, mem, p)
                 /\ bufs' = bufs \cup {[ptr |-> allocResult(build, p), size |-> size,
                                       origin |-> p]}
    /\ UNCHANGED <<pDest, pSrc, pDest0, gains, divisor, build, released>>
    /\ UNCHANGED fixVars

\* SampleUtil::alloc(size), the underlying allocation failing
CallAllocFails ==
    /\ \E size \in 0..MaxAllocSamples :
          /\ op' = "alloc"
          /\ args' = [numSamples |-> size, underlying |-> 0,
                       attempts |-> allocAttempts(build)]
          /\ ret' = allocResult(build, 0)
          /\ mem' = allocStore(build, mem, 0)
    /\ UNCHANGED <<pDest, pSrc, pDest0, gains, divisor>>
    /\ UNCHANGED <<build, heap, bufs, released>>
    /\ UNCHANGED fixVars

\* the caller writes sample i of one of its buffers
WriteSample ==
    /\ \E b \in bufs : \E i \in 0..b.size - 1 :
          LET at == b.ptr + SizeofCSAMPLE * i
          IN  /\ op' = "write"
              /\ args' = [numSamples |-> i, underlying |-> b.ptr]
              /\ mem' = [a \in DOMAIN mem \cup (at..at + SizeofCSAMPLE - 1) |->
                            IF a \in at..at + SizeofCSAMPLE - 1 THEN 255 ELSE mem[a]]
    /\ UNCHANGED <<pDest, pSrc, pDest0, ret, gains, divisor>>
    /\ UNCHANGED <<build, heap, bufs, released>>
    /\ UNCHANGED fixVars

\* SampleUtil::free(pBuffer) of a buffer alloc returned; std::free(q) releases
\* the block whose base is q and leaves its bytes indeterminate
CallFree ==
    /\ \E b \in bufs :
          LET q == freeArgument(build, mem, b.ptr)
              gone == {blk \in heap : blk.base = q}
          IN  /\ op' = "free"
              /\ args' = [numSamples |-> b.size, underlying |-> b.ptr]
              /\ heap' = heap \ gone
              /\ mem' = [a \in {x \in DOMAIN mem :
                                   \A blk \in gone : x \notin BlockRange(blk)} |-> mem[a]]
              /\ bufs' = bufs \ {b}
              /\ released' = [buffer |-> b.ptr, passed |-> q, origin |-> b.origin,
                              blocks |-> Cardinality(gone)]
    /\ UNCHANGED <<pDest, pSrc, pDest0, ret, gains, divisor, build>>
    /\ UNCHANGED fixVars

\* SampleUtil::free(NULL)
CallFreeNull ==
    /\ LET q == freeArgument(build, mem, 0)
           gone == {blk \in heap : blk.base = q}
       IN  /\ op' = "free"
           /\ args' = [numSamples |-> 0, underlying |-> 0]
           /\ heap' = heap \ gone
           /\ released' = [buffer |-> 0, passed |-> q, origin |-> 0,
                           blocks |-> Cardinality(gone)]
    /\ UNCHANGED <<pDest, pSrc, pDest0, ret, gains, divisor, build, mem, bufs>>
    /\ UNCHANGED fixVars

NextAlloc ==
    \/ CallAlloc
    \/ CallAllocFails
    \/ WriteSample
    \/ CallFree
    \/ CallFreeNull

SpecAlloc == InitAlloc /\ [][NextAlloc]_vars

\* C10: in the over-allocate-and-shift scheme alloc returns a multiple of the
\* alignment for every address malloc returns, a later free of that address
\* releases exactly the block malloc returned for it, and free of a null
\* buffer releases nothing.
C10_AlignedAndReleased ==
    ManualScheme(build) =>
        /\ \A b \in bufs : b.ptr # 0 /\ b.ptr % build.kAlignment = 0
        /\ (op = "alloc" /\ args.underlying # 0) =>
               ret # 0 /\ ret % build.kAlignment = 0
        /\ (op = "free" /\ released.buffer # 0) =>
               /\ released.passed = released.origin
               /\ released.blocks = 1
        /\ (op = "free" /\ released.buffer = 0) =>
               released.blocks = 0 /\ released.passed = -1
        /\ {blk.base : blk \in heap} = {b.origin : b \in bufs}

\* two buffers were allocated, one from a malloc result that was already
\* aligned, both were written, and the first one has been freed
C10_Witness ==
    /\ ManualScheme(build)
    /\ op = "free"
    /\ released.buffer # 0
    /\ released.origin % build.kAlignment = 0
    /\ released.passed = released.origin
    /\ \E b \in bufs : b.size > 0 /\ \A a \in b.ptr..b.ptr + 3 : a \in DOMAIN mem

\* C11: when the underlying allocation fails, alloc returns null in every
\* allocator environment after a single attempt and writes nothing to
\* memory (the manual scheme stores no pointer in the slack space).
C11_FailedAllocReturnsNull ==
    [][(op' = "alloc" /\ args'.underlying = 0) =>
          /\ ret' = 0
          /\ args'.attempts = 1
          /\ mem' = mem
          /\ heap' = heap /\ bufs' = bufs]_vars

\* an allocation failed in the manual scheme while the caller held a buffer
\* it had written
C11_Witness ==
    /\ ManualScheme(build)
    /\ op = "alloc" /\ args.underlying = 0 /\ ret = 0
    /\ \E b \in bufs : b.size > 0 /\ \A a \in b.ptr..b.ptr + 3 : a \in DOMAIN mem

----------------------------------------------------------------------------
(* Mixer: flat gain and accumulation.                                       *)

RECURSIVE applyGainLoop(_, _, _, _)
applyGainLoop(pBuffer, gain, i, numSamples) ==
    IF i >= numSamples THEN pBuffer
    ELSE applyGainLoop(Put(pBuffer, i, RMul(At(pBuffer, i), gain)), gain,
                       i + 1, numSamples)

\* an applyGain whose two shortcuts are exchanged
MutApplyGainSwapped(pBuffer, gain, numSamples) ==
    IF gain = CSAMPLE_GAIN_ZERO THEN pBuffer
    ELSE IF gain = CSAMPLE_GAIN_ONE THEN clear(pBuffer, numSamples)
    ELSE applyGainLoop(pBuffer, gain, 0, numSamples)

\* SampleUtil::applyGain(pBuffer, gain, numSamples)
applyGain(pBuffer, gain, numSamples) ==
    IF gain = CSAMPLE_GAIN_ONE THEN pBuffer
    ELSE IF gain = CSAMPLE_GAIN_ZERO THEN clear(pBuffer, numSamples)
    ELSE applyGainLoop(pBuffer, gain, 0, numSamples)

RECURSIVE addLoop(_, _, _, _)
addLoop(dest, src, i, numSamples) ==
    IF i >= numSamples THEN dest
    ELSE addLoop(Put(dest, i, RAdd(At(dest, i), At(src, i))), src, i + 1, numSamples)

\* SampleUtil::add(pDest, pSrc, numSamples)
add(dest, src, numSamples) == addLoop(dest, src, 0, numSamples)

RECURSIVE addWithGainLoop(_, _, _, _, _)
addWithGainLoop(dest, src, gain, i, numSamples) ==
    IF i >= numSamples THEN dest
    ELSE addWithGainLoop(
             Put(dest, i, RAdd(At(dest, i), RMul(At(src, i), gain))),
             src, gain, i + 1, numSamples)

\* an addWithGain that stores the scaled sample instead of accumulating it
MutAddWithGainStores(dest, src, gain, numSamples) ==
    IF gain = CSAMPLE_GAIN_ZERO THEN dest
    ELSE [k \in 1..Len(dest) |->
             IF k <= numSamples THEN RMul(src[k], gain) ELSE dest[k]]

\* SampleUtil::addWithGain(pDest, pSrc, gain, numSamples)
addWithGain(dest, src, gain, numSamples) ==
    IF gain = CSAMPLE_GAIN_ZERO THEN dest
    ELSE addWithGainLoop(dest, src, gain, 0, numSamples)

RECURSIVE add2WithGainLoop(_, _, _, _, _, _, _)
add2WithGainLoop(dest, src1, gain1, src2, gain2, i, numSamples) ==
    IF i >= numSamples THEN dest
    ELSE add2WithGainLoop(
             Put(dest, i, RAdd(At(dest, i),
                               RAdd(RMul(At(src1, i), gain1),
                                    RMul(At(src2, i), gain2)))),
             src1, gain1, src2, gain2, i + 1, numSamples)

\* an add2WithGain whose first cascade keeps the silent source
MutAdd2KeepsSilentSource(dest, src1, gain1, src2, gain2, numSamples) ==
    IF gain1 = CSAMPLE_GAIN_ZERO THEN addWithGain(dest, src1, gain2, numSamples)
    ELSE IF gain2 = CSAMPLE_GAIN_ZERO THEN addWithGain(dest, src1, gain1, numSamples)
    ELSE add2WithGainLoop(dest, src1, gain1, src2, gain2, 0, numSamples)

\* SampleUtil::add2WithGain(pDest, pSrc1, gain1, pSrc2, gain2, numSamples)
add2WithGain(dest, src1, gain1, src2, gain2, numSamples) ==
    IF gain1 = CSAMPLE_GAIN_ZERO THEN addWithGain(dest, src2, gain2, numSamples)
    ELSE IF gain2 = CSAMPLE_GAIN_ZERO THEN addWithGain(dest, src1, gain1, numSamples)
    ELSE add2WithGainLoop(dest, src1, gain1, src2, gain2, 0, numSamples)

RECURSIVE add3WithGainLoop(_, _, _, _, _, _, _, _, _)
add3WithGainLoop(dest, src1, gain1, src2, gain2, src3, gain3, i, numSamples) ==
    IF i >= numSamples THEN dest
    ELSE add3WithGainLoop(
             Put(dest, i, RAdd(At(dest, i),
                               RAdd(RAdd(RMul(At(src1, i), gain1),
                                         RMul(At(src2, i), gain2)),
                                    RMul(At(src3, i), gain3)))),
             src1, gain1, src2, gain2, src3, gain3, i + 1, numSamples)

\* SampleUtil::add3WithGain(pDest, pSrc1, gain1, pSrc2, gain2, pSrc3, gain3,
\* numSamples)
add3WithGain(dest, src1, gain1, src2, gain2, src3, gain3, numSamples) ==
    IF gain1 = CSAMPLE_GAIN_ZERO
    THEN add2WithGain(dest, src2, gain2, src3, gain3, numSamples)
    ELSE IF gain2 = CSAMPLE_GAIN_ZERO
    THEN add2WithGain(dest, src1, gain1, src3, gain3, numSamples)
    ELSE IF gain3 = CSAMPLE_GAIN_ZERO
    THEN add2WithGain(dest, src1, gain1, src2, gain2, numSamples)
    ELSE add3WithGainLoop(dest, src1, gain1, src2, gain2, src3, gain3, 0,
                          numSamples)

----------------------------------------------------------------------------
(* Calls of the mixer.  pDest is the accumulator, pSrc the first source;    *)
(* the further sources of the 2- and 3-source forms are inputs of the call. *)

MixMaxLen == 2       \* longest buffer of the mixer calls, in samples

MixSamples == {R(-1), R(2)}
MixGains == {R(0), R(1), Q(-1, 2)}

InitMixer ==
    /\ InitIdle /\ InitNoFixed /\ InitNoMemory
    /\ \E n \in 1..MixMaxLen :
          /\ pDest \in SeqsOf(MixSamples, n)
          /\ pSrc \in SeqsOf(MixSamples, n)
    /\ pDest0 = pDest

CallApplyGain ==
    /\ op = "idle"
    /\ \E n \in 1..Len(pDest), gain \in MixGains :
          /\ op' = "applyGain"
          /\ args' = [numSamples |-> n, gain |-> <<gain>>, src |-> <<>>]
          /\ pDest' = applyGain(pDest, gain, n)
    /\ UNCHANGED <<pSrc, pDest0, ret, gains, divisor>>
    /\ UNCHANGED fixVars /\ UNCHANGED memVars

CallAdd ==
    /\ op = "idle"
    /\ \E n \in 1..Len(pDest) :
          /\ op' = "add"
          /\ args' = [numSamples |-> n, gain |-> <<>>, src |-> <<pSrc>>]
          /\ pDest' = add(pDest, pSrc, n)
    /\ UNCHANGED <<pSrc, pDest0, ret, gains, divisor>>
    /\ UNCHANGED fixVars /\ UNCHANGED memVars

CallAddWithGain ==
    /\ op = "idle"
    /\ \E n \in 1..Len(pDest), gain \in MixGains :
          /\ op' = "addWithGain"
          /\ args' = [numSamples |-> n, gain |-> <<gain>>, src |-> <<pSrc>>]
          /\ pDest' = addWithGain(pDest, pSrc, gain, n)
    /\ UNCHANGED <<pSrc, pDest0, ret, gains, divisor>>
    /\ UNCHANGED fixVars /\ UNCHANGED memVars

CallAdd2WithGain ==
    /\ op = "idle"
    /\ \E n \in 1..Len(pDest), gain1 \in MixGains, gain2 \in MixGains,
          pSrc2 \in SeqsOf(MixSamples, Len(pDest)) :
          /\ op' = "add2WithGain"
          /\ args' = [numSamples |-> n, gain |-> <<gain1, gain2>>,
                      src |-> <<pSrc, pSrc2>>]
          /\ pDest' = add2WithGain(pDest, pSrc, gain1, pSrc2, gain2, n)
    /\ UNCHANGED <<pSrc, pDest0, ret, gains, divisor>>
    /\ UNCHANGED fixVars /\ UNCHANGED memVars

CallAdd3WithGain ==
    /\ op = "idle"
    /\ \E n \in 1..Len(pDest), gain1 \in MixGains, gain2 \in MixGains,
          gain3 \in MixGains,
          pSrc2 \in SeqsOf(MixSamples, Len(pDest)),
          pSrc3 \in SeqsOf(MixSamples, Len(pDest)) :
          /\ op' = "add3WithGain"
          /\ args' = [numSamples |-> n, gain |-> <<gain1, gain2, gain3>>,
                      src |-> <<pSrc, pSrc2, pSrc3>>]
          /\ pDest' = add3WithGain(pDest, pSrc, gain1, pSrc2, gain2, pSrc3,
                                   gain3, n)
    /\ UNCHANGED <<pSrc, pDest0, ret, gains, divisor>>
    /\ UNCHANGED fixVars /\ UNCHANGED memVars

NextMixer ==
    \/ CallApplyGain
    \/ CallAdd
    \/ CallAddWithGain
    \/ CallAdd2WithGain
    \/ CallAdd3WithGain

SpecMixer == InitMixer /\ [][NextMixer]_vars

\* sum over the sources k of src_k[i] * gain_k, for the sources in srcs
RECURSIVE WeightedSum(_, _, _)
WeightedSum(srcs, gs, i) ==
    IF srcs = <<>> THEN R(0)
    ELSE RAdd(RMul(At(Head(srcs), i), Head(gs)), WeightedSum(Tail(srcs), Tail(gs), i))

\* C12: add2WithGain and add3WithGain leave
\* dest[i] = dest_before[i] + sum over the sources k of src_k[i] * gain_k for
\* every i < n and every combination of gains, zero gains included; with all
\* gains zero dest is unchanged; samples at and after n are untouched.
C12_AccumulatesWeightedSum ==
    op \in {"add2WithGain", "add3WithGain"} =>
        /\ Len(pDest) = Len(pDest0)
        /\ \A i \in 0..Len(pDest) - 1 :
              At(pDest, i) = IF i < args.numSamples
                             THEN RAdd(At(pDest0, i), WeightedSum(args.src, args.gain, i))
                             ELSE At(pDest0, i)
        /\ (\A k \in DOMAIN args.gain : args.gain[k] = CSAMPLE_GAIN_ZERO) =>
               pDest = pDest0

\* add3WithGain cascaded twice: the first and the third gain are zero, the
\* second is not, and dest changed
C12_Witness ==
    /\ op = "add3WithGain"
    /\ args.gain[1] = CSAMPLE_GAIN_ZERO
    /\ args.gain[2] # CSAMPLE_GAIN_ZERO
    /\ args.gain[3] = CSAMPLE_GAIN_ZERO
    /\ args.src[1] # args.src[2]
    /\ args.numSamples = Len(pDest)
    /\ pDest # pDest0

\* C15: for every n > 0 and every buffer, applyGain(buf, 1, n) leaves the n
\* samples unchanged, applyGain(buf, 0, n) sets them to zero, and any other
\* gain turns sample i < n into buf_before[i] * gain; samples at and after n
\* are untouched.
C15_ApplyGain ==
    (op = "applyGain" /\ args.numSamples > 0) =>
        LET gain == args.gain[1]
        IN  /\ Len(pDest) = Len(pDest0)
            /\ \A i \in 0..Len(pDest) - 1 :
                  At(pDest, i) =
                      IF i >= args.numSamples THEN At(pDest0, i)
                      ELSE IF gain = CSAMPLE_GAIN_ONE THEN At(pDest0, i)
                      ELSE IF gain = CSAMPLE_GAIN_ZERO THEN CSAMPLE_ZERO
                      ELSE RMul(At(pDest0, i), gain)

\* a gain that is neither zero nor one was applied to a part of a buffer
C15_Witness ==
    /\ op = "applyGain"
    /\ args.gain[1] \notin {CSAMPLE_GAIN_ZERO, CSAMPLE_GAIN_ONE}
    /\ 0 < args.numSamples /\ args.numSamples < Len(pDest)
    /\ At(pDest, 0) = RMul(At(pDest0, 0), args.gain[1])
    /\ pDest # pDest0

\* scaled-copy-of(src, g): scaled[i] = src[i] * g
Scaled(src, g) == [k \in 1..Len(src) |-> RMul(src[k], g)]

\* C16: for every gain g, zero included (dest is then unchanged),
\* addWithGain(dest, src, g, n) yields the dest of add(dest, scaled, n) with
\* scaled[i] = src[i] * g, and leaves src unchanged.
C16_AddWithGainIsAddOfScaled ==
    [][op' = "addWithGain" =>
          /\ pDest' = add(pDest, Scaled(pSrc, args'.gain[1]), args'.numSamples)
          /\ (args'.gain[1] = CSAMPLE_GAIN_ZERO => pDest' = pDest)
          /\ pSrc' = pSrc]_vars

\* addWithGain ran with a gain that is neither zero nor one
C16_Witness ==
    /\ op = "addWithGain"
    /\ args.gain[1] \notin {CSAMPLE_GAIN_ZERO, CSAMPLE_GAIN_ONE}
    /\ args.numSamples = Len(pDest)
    /\ pSrc = args.src[1]
    /\ pDest # pDest0

----------------------------------------------------------------------------
(* Channel layout transforms: multichannel to stereo and back.              *)

\* excludeChannelMask >> stemIdx & 0b1
stemExcluded(excludeChannelMask, stemIdx) ==
    (excludeChannelMask \div (2 ^ stemIdx)) % 2 = 1

\* the frame loop of one stereo sub-group: pDest[2i], pDest[2i+1] += pSrc[..]
RECURSIVE mixStemFrames(_, _, _, _, _, _)
mixStemFrames(dest, src, stemIdx, i, numFrames, numChannels) ==
    IF i >= numFrames THEN dest
    ELSE LET srcIdx == numChannels * i + stemIdx * StereoChannels
             destIdx == StereoChannels * i
             left == Put(dest, destIdx, RAdd(At(dest, destIdx), At(src, srcIdx)))
             both == Put(left, destIdx + 1,
                         RAdd(At(left, destIdx + 1), At(src, srcIdx + 1)))
         IN  mixStemFrames(both, src, stemIdx, i + 1, numFrames, numChannels)

\* the loop over the stereo sub-groups, skipping the excluded ones
RECURSIVE mixStems(_, _, _, _, _, _, _)
mixStems(dest, src, stemIdx, stereoChCount, numFrames, numChannels, mask) ==
    IF stemIdx >= stereoChCount THEN dest
    ELSE mixStems(
             IF stemExcluded(mask, stemIdx) THEN dest
             ELSE mixStemFrames(dest, src, stemIdx, 0, numFrames, numChannels),
             src, stemIdx + 1, stereoChCount, numFrames, numChannels, mask)

\* a masked mix that accumulates onto the previous contents of dest
MutMixKeepsDest(dest, src, numFrames, numChannels, excludeChannelMask) ==
    mixStems(dest, src, 0, numChannels \div StereoChannels, numFrames,
             numChannels, excludeChannelMask)

\* SampleUtil::mixMultichannelToStereo(pDest, pSrc, numFrames, numChannels,
\* excludeChannelMask)
mixMultichannelToStereo(dest, src, numFrames, numChannels, excludeChannelMask) ==
    mixStems(clear(dest, numFrames * StereoChannels), src, 0,
             numChannels \div StereoChannels, numFrames, numChannels,
             excludeChannelMask)

RECURSIVE stripMultiToStereoLoop(_, _, _, _)
stripMultiToStereoLoop(pBuffer, i, numFrames, numChannels) ==
    IF i >= numFrames THEN pBuffer
    ELSE LET left == Put(pBuffer, i * 2, At(pBuffer, i * numChannels))
             both == Put(left, i * 2 + 1, At(left, i * numChannels + 1))
         IN  stripMultiToStereoLoop(both, i + 1, numFrames, numChannels)

\* a strip that walks the frames from the last to the first
RECURSIVE MutStripBackwardLoop(_, _, _)
MutStripBackwardLoop(pBuffer, i, numChannels) ==
    IF i < 0 THEN pBuffer
    ELSE LET left == Put(pBuffer, i * 2, At(pBuffer, i * numChannels))
             both == Put(left, i * 2 + 1, At(left, i * numChannels + 1))
         IN  MutStripBackwardLoop(both, i - 1, numChannels)

MutStripBackward(pBuffer, numFrames, numChannels) ==
    MutStripBackwardLoop(pBuffer, numFrames - 1, numChannels)

\* SampleUtil::stripMultiToStereo(pBuffer, numFrames, numChannels)
stripMultiToStereo(pBuffer, numFrames, numChannels) ==
    stripMultiToStereoLoop(pBuffer, 0, numFrames, numChannels)

RECURSIVE copyOneStereoFromMultiLoop(_, _, _, _, _, _)
copyOneStereoFromMultiLoop(dest, src, i, numFrames, numChannels, sourceChannel) ==
    IF i >= numFrames THEN dest
    ELSE LET left == Put(dest, i * 2, At(src, i * numChannels + sourceChannel))
             both == Put(left, i * 2 + 1,
                         At(src, i * numChannels + sourceChannel + 1))
         IN  copyOneStereoFromMultiLoop(both, src, i + 1, numFrames, numChannels,
                                        sourceChannel)

\* SampleUtil::copyOneStereoFromMulti(pDest, pSrc, numFrames, numChannels,
\* sourceChannel)
copyOneStereoFromMulti(dest, src, numFrames, numChannels, sourceChannel) ==
    copyOneStereoFromMultiLoop(dest, src, 0, numFrames, numChannels, sourceChannel)

\* the DEBUG_ASSERT of insertStereoToMulti
insertAsserted(numFrames, numChannels, channelOffset) ==
    numChannels > StereoChannels /\ channelOffset - 1 < numFrames

\* pDest[idx] = v; a write outside the buffer leaves the buffer as it is
storeAt(dest, idx, v) == IF InBuf(dest, idx) THEN Put(dest, idx, v) ELSE dest

\* the loop: the buffer, and the <<frame, index>> pairs written, in order
RECURSIVE insertStereoToMultiLoop(_, _, _, _, _, _, _)
insertStereoToMultiLoop(dest, writes, src, i, numFrames, numChannels, channelOffset) ==
    IF i >= numFrames THEN [buffer |-> dest, writes |-> writes]
    ELSE LET first == i * numChannels + channelOffset
             left == storeAt(dest, first, At(src, i * 2))
             both == storeAt(left, first + 1, At(src, i * 2 + 1))
         IN  insertStereoToMultiLoop(both, writes \o <<<<i, first>>, <<i, first + 1>>>>,
                                     src, i + 1, numFrames, numChannels, channelOffset)

\* SampleUtil::insertStereoToMulti(pDest, pSrc, numFrames, numChannels,
\* channelOffset)
insertStereoToMulti(dest, src, numFrames, numChannels, channelOffset) ==
    insertStereoToMultiLoop(dest, <<>>, src, 0, numFrames, numChannels, channelOffset)

----------------------------------------------------------------------------
(* Calls of the multichannel transforms.  pSrc is the multichannel buffer   *)
(* of numFrames frames of numChannels samples, pDest the stereo buffer of   *)
(* numFrames frames; args of the idle state carries the layout.             *)

MultiMaxFrames == 3      \* longest buffer of the multichannel calls, in frames
MultiMaxChannels == 6    \* widest frame of the multichannel calls, in samples

RECURSIVE Pow2(_)
Pow2(k) == IF k = 0 THEN 1 ELSE 2 * Pow2(k - 1)

\* contents of the multichannel buffer: sample k is 2^k (a sum of samples
\* names the samples that were added), -(k+1), or 1 everywhere
MultiPatterns(len) ==
    {[k \in 1..len |-> R(Pow2(k - 1))], [k \in 1..len |-> R(-k)], Fill(len, R(1))}

\* contents of the stereo buffer: silence, or 100 + k for sample k
StereoPatterns(len) == {Fill(len, CSAMPLE_ZERO), [k \in 1..len |-> R(100 + k)]}

\* one bit for every stereo sub-group, and one bit more
ExcludeMasks == 0..(Pow2(MultiMaxChannels \div StereoChannels + 1) - 1)

InitMulti ==
    /\ op = "idle" /\ ret = NoValue /\ gains = <<>> /\ divisor = -1
    /\ InitNoFixed /\ InitNoMemory
    /\ \E numFrames \in 1..MultiMaxFrames,
          numChannels \in (StereoChannels + 1)..MultiMaxChannels :
          /\ args = [numSamples |-> numFrames * numChannels,
                     numFrames |-> numFrames, numChannels |-> numChannels]
          /\ pSrc \in MultiPatterns(numFrames * numChannels)
          /\ pDest \in StereoPatterns(numFrames * StereoChannels)
    /\ pDest0 = pDest

CallMixMultichannelToStereo ==
    /\ op = "idle"
    /\ \E excludeChannelMask \in ExcludeMasks :
          /\ op' = "mixMultichannelToStereo"
          /\ args' = [numSamples |-> args.numSamples, numFrames |-> args.numFrames,
                      numChannels |-> args.numChannels,
                      excludeChannelMask |-> excludeChannelMask]
          /\ pDest' = mixMultichannelToStereo(pDest, pSrc, args.numFrames,
                                              args.numChannels, excludeChannelMask)
    /\ UNCHANGED <<pSrc, pDest0, ret, gains, divisor>>
    /\ UNCHANGED fixVars /\ UNCHANGED memVars

\* in place on the multichannel buffer
CallStripMultiToStereo ==
    /\ op = "idle"
    /\ op' = "stripMultiToStereo"
    /\ args' = [numSamples |-> args.numSamples, numFrames |-> args.numFrames,
                numChannels |-> args.numChannels]
    /\ pSrc' = stripMultiToStereo(pSrc, args.numFrames, args.numChannels)
    /\ UNCHANGED <<pDest, pDest0, ret, gains, divisor>>
    /\ UNCHANGED fixVars /\ UNCHANGED memVars

\* sourceChannel is the first channel of a pair inside the frame
CallCopyOneStereoFromMulti ==
    /\ op = "idle"
    /\ \E sourceChannel \in 0..args.numChannels - 2 :
          /\ op' = "copyOneStereoFromMulti"
          /\ args' = [numSamples |-> args.numSamples, numFrames |-> args.numFrames,
                      numChannels |-> args.numChannels,
                      sourceChannel |-> sourceChannel]
          /\ pDest' = copyOneStereoFromMulti(pDest, pSrc, args.numFrames,
                                             args.numChannels, sourceChannel)
    /\ UNCHANGED <<pSrc, pDest0, ret, gains, divisor>>
    /\ UNCHANGED fixVars /\ UNCHANGED memVars

\* the multichannel buffer is the destination, the stereo buffer the source;
\* ret records the <<frame, index>> pairs written and how the call ended: a
\* write outside the destination buffer is undefined behaviour, after which
\* the call may return or fault
CallInsertStereoToMulti ==
    /\ op = "idle"
    /\ \E channelOffset \in 0..MultiMaxChannels :
          LET out == insertStereoToMulti(pSrc, pDest, args.numFrames,
                                         args.numChannels, channelOffset)
              outside == \E k \in DOMAIN out.writes : ~InBuf(pSrc, out.writes[k][2])
          IN  /\ op' = "insertStereoToMulti"
              /\ args' = [numSamples |-> args.numSamples, numFrames |-> args.numFrames,
                          numChannels |-> args.numChannels,
                          channelOffset |-> channelOffset,
                          asserted |-> insertAsserted(args.numFrames, args.numChannels,
                                                      channelOffset)]
              /\ pSrc' = out.buffer
              /\ \E outcome \in (IF outside THEN {"returned", "faulted"}
                                  ELSE {"returned"}) :
                     ret' = [writes |-> out.writes, outcome |-> outcome]
    /\ UNCHANGED <<pDest, pDest0, gains, divisor>>
    /\ UNCHANGED fixVars /\ UNCHANGED memVars

NextMulti ==
    \/ CallMixMultichannelToStereo
    \/ CallInsertStereoToMulti
    \/ CallStripMultiToStereo
    \/ CallCopyOneStereoFromMulti

SpecMulti == InitMulti /\ [][NextMulti]_vars

\* the sum of src[numChannels*i + 2s + c] over the sub-groups s in from..upto-1
\* whose bit in mask is clear
RECURSIVE IncludedSum(_, _, _, _, _, _, _)
IncludedSum(src, numChannels, mask, i, c, from, upto) ==
    IF from >= upto THEN R(0)
    ELSE RAdd(IF (mask \div Pow2(from)) % 2 = 0
              THEN At(src, numChannels * i + 2 * from + c)
              ELSE R(0),
              IncludedSum(src, numChannels, mask, i, c, from + 1, upto))

\* C13: the masked mixMultichannelToStereo discards the previous contents of
\* dest and writes, for every frame i and channel c in {0,1},
\* dest[2i+c] = the sum of src[numChannels*i + 2s + c] over exactly those
\* stereo sub-groups s < numChannels/2 whose bit s of the mask is clear; with
\* every sub-group excluded dest is all zero.
C13_MaskedStereoMix ==
    op = "mixMultichannelToStereo" =>
        LET groups == args.numChannels \div 2
        IN  /\ Len(pDest) = 2 * args.numFrames
            /\ \A i \in 0..args.numFrames - 1 : \A c \in {0, 1} :
                  At(pDest, 2 * i + c) =
                      IncludedSum(pSrc, args.numChannels, args.excludeChannelMask,
                                  i, c, 0, groups)
            /\ (\A g \in 0..groups - 1 :
                   (args.excludeChannelMask \div Pow2(g)) % 2 = 1) =>
                   pDest = Fill(2 * args.numFrames, CSAMPLE_ZERO)

\* three sub-groups of which the middle one is excluded, mixed over a dest
\* that was not silent: the left sample of frame 1 is src[6] + src[10]
C13_Witness ==
    /\ op = "mixMultichannelToStereo"
    /\ args.numChannels = 6 /\ args.numFrames >= 2
    /\ args.excludeChannelMask = 2
    /\ pDest0 # Fill(Len(pDest0), CSAMPLE_ZERO)
    /\ At(pSrc, 6) = R(64)
    /\ At(pDest, 2) = R(64 + 1024)

----------------------------------------------------------------------------
(* Analyzer: per-channel absolute sum and clipping flags.                   *)

CSAMPLE_PEAK == R(1)     \* the nominal full-scale peak (util/types.h)
NO_CLIPPING == 0         \* SampleUtil::CLIP_STATUS (util/sample.h), a bitmask
CLIPPING_LEFT == 1
CLIPPING_RIGHT == 2

\* the loop: <<fAbsL, fAbsR, clippedL, clippedR>> after the frames i..
RECURSIVE sumAbsLoop(_, _, _, _)
sumAbsLoop(pBuffer, acc, i, numSamples) ==
    IF i >= numSamples \div 2 THEN acc
    ELSE LET absl == RAbs(At(pBuffer, i * 2))
             absr == RAbs(At(pBuffer, i * 2 + 1))
         IN  sumAbsLoop(pBuffer,
                        <<RAdd(acc[1], absl), RAdd(acc[2], absr),
                          acc[3] + (IF RGt(absl, CSAMPLE_PEAK) THEN 1 ELSE 0),
                          acc[4] + (IF RGt(absr, CSAMPLE_PEAK) THEN 1 ELSE 0)>>,
                        i + 1, numSamples)

\* a clipping test that also fires at the threshold
MutClipStatusAtPeak(pBuffer, numSamples) ==
    (IF \E i \in 0..(numSamples \div 2) - 1 :
            RAbs(At(pBuffer, i * 2)) = CSAMPLE_PEAK \/ RGt(RAbs(At(pBuffer, i * 2)), CSAMPLE_PEAK)
     THEN CLIPPING_LEFT ELSE NO_CLIPPING)
    + (IF \E i \in 0..(numSamples \div 2) - 1 :
              RAbs(At(pBuffer, i * 2 + 1)) = CSAMPLE_PEAK
                  \/ RGt(RAbs(At(pBuffer, i * 2 + 1)), CSAMPLE_PEAK)
       THEN CLIPPING_RIGHT ELSE NO_CLIPPING)

\* the returned CLIP_STATUS; the two flags are distinct bits, so | is +
sumAbsClipStatus(pBuffer, numSamples) ==
    LET acc == sumAbsLoop(pBuffer, <<CSAMPLE_ZERO, CSAMPLE_ZERO, 0, 0>>, 0, numSamples)
    IN  (IF acc[3] > 0 THEN CLIPPING_LEFT ELSE NO_CLIPPING)
        + (IF acc[4] > 0 THEN CLIPPING_RIGHT ELSE NO_CLIPPING)

\* SampleUtil::sumAbsPerChannel(pfAbsL, pfAbsR, pBuffer, numSamples):
\* the values stored in *pfAbsL and *pfAbsR and the returned status
sumAbsPerChannel(pBuffer, numSamples) ==
    LET acc == sumAbsLoop(pBuffer, <<CSAMPLE_ZERO, CSAMPLE_ZERO, 0, 0>>, 0, numSamples)
    IN  [pfAbsL |-> acc[1], pfAbsR |-> acc[2],
         clipping |-> sumAbsClipStatus(pBuffer, numSamples)]

----------------------------------------------------------------------------
(* Calls of sumAbsPerChannel.  pDest holds the two output cells *pfAbsL and *)
(* *pfAbsR, ret the returned CLIP_STATUS.                                   *)

ClipMaxFrames == 2       \* longest buffer of the sumAbsPerChannel calls, in frames

ClipSamples == {R(-2), R(-1), Q(1, 2), R(1), Q(3, 2)}

InitClip ==
    /\ InitIdle /\ InitNoFixed /\ InitNoMemory
    /\ \E frames \in 0..ClipMaxFrames : pSrc \in SeqsOf(ClipSamples, 2 * frames)
    /\ pDest \in {<<R(7), R(7)>>}
    /\ pDest0 = pDest

CallSumAbsPerChannel ==
    /\ op = "idle"
    /\ LET out == sumAbsPerChannel(pSrc, Len(pSrc))
       IN  /\ op' = "sumAbsPerChannel"
           /\ args' = [numSamples |-> Len(pSrc)]
           /\ pDest' = <<out.pfAbsL, out.pfAbsR>>
           /\ ret' = out.clipping
    /\ UNCHANGED <<pSrc, pDest0, gains, divisor>>
    /\ UNCHANGED fixVars /\ UNCHANGED memVars

NextClip ==
    \/ CallSumAbsPerChannel

SpecClip == InitClip /\ [][NextClip]_vars

\* the sum of |buffer[2i + c]| over the frames from..upto-1
RECURSIVE ChannelAbsSum(_, _, _, _)
ChannelAbsSum(buf, c, from, upto) ==
    IF from >= upto THEN R(0)
    ELSE RAdd(RAbs(At(buf, 2 * from + c)), ChannelAbsSum(buf, c, from + 1, upto))

\* some sample of channel c is strictly above the peak in absolute value
ChannelClips(buf, c) ==
    \E i \in 0..(Len(buf) \div 2) - 1 :
        LET v == At(buf, 2 * i + c)
        IN  v[1] > v[2] \/ -v[1] > v[2]

\* C14: sumAbsPerChannel stores the sum of |buffer[2i]| in *pfAbsL and the sum
\* of |buffer[2i+1]| in *pfAbsR, and returns a bitmask whose CLIPPING_LEFT bit
\* is set iff some left sample is strictly above the peak threshold in
\* absolute value, CLIPPING_RIGHT likewise; a sample at the threshold sets
\* no flag.
C14_SumAbsAndClipFlags ==
    op = "sumAbsPerChannel" =>
        /\ pDest[1] = ChannelAbsSum(pSrc, 0, 0, Len(pSrc) \div 2)
        /\ pDest[2] = ChannelAbsSum(pSrc, 1, 0, Len(pSrc) \div 2)
        /\ ret \in 0..3
        /\ ((ret % 2 = 1) <=> ChannelClips(pSrc, 0))
        /\ ((ret \div 2 = 1) <=> ChannelClips(pSrc, 1))

\* a left sample at the threshold and a right sample above it: only
\* CLIPPING_RIGHT is returned
C14_Witness ==
    /\ op = "sumAbsPerChannel"
    /\ Len(pSrc) = 4
    /\ \E i \in {0, 1} : At(pSrc, 2 * i) = R(-1)
    /\ \A i \in {0, 1} : At(pSrc, 2 * i) \in {R(-1), R(1), Q(1, 2)}
    /\ \E i \in {0, 1} : At(pSrc, 2 * i + 1) = R(-2)
    /\ ret = 2

----------------------------------------------------------------------------
(* The specialized crossfade paths against the generic fallback.            *)

\* a fade-out call with channel count 2 or 8 on whole frames
SpecializedFadeOut ==
    /\ op = "linearCrossfadeBuffersOut"
    /\ args.channelCount \in {StereoChannels, StemChannels}
    /\ args.numSamples > 0
    /\ args.numSamples % args.channelCount = 0

\* C17: for channel counts 2 and 8 the specialized paths compute what the
\* generic fallback computes: linearCrossfadeBuffersOut sets every sample of
\* frame i to fadeOut*(1 - i/F) + fadeIn*(i/F) with F = numSamples/channelCount,
\* all channels of a frame share one mix value, frame 0 keeps the fade-out
\* samples (mix = 0) and mix is strictly below 1 on the last frame.
C17_SpecializedEqualsGeneric ==
    SpecializedFadeOut =>
        LET c == args.channelCount
            F == args.numSamples \div c
        IN  /\ pDest = crossfadeGeneric(pDest0, pSrc, args.numSamples, c, FALSE)
            /\ Len(gains) = F
            /\ \A i \in 0..F - 1 : At(gains, i) = Q(i, F)
            /\ At(gains, 0) = R(0)
            /\ RLt(At(gains, F - 1), R(1))
            /\ \A i \in 0..F - 1 : \A ch \in 0..c - 1 :
                  At(pDest, i * c + ch) =
                      RAdd(RMul(At(pDest0, i * c + ch), RSub(R(1), Q(i, F))),
                           RMul(At(pSrc, i * c + ch), Q(i, F)))
            /\ \A ch \in 0..c - 1 : At(pDest, ch) = At(pDest0, ch)

\* a stem fade-out of two frames of eight channels: frame 0 keeps the
\* fade-out samples, every channel of frame 1 is the mean of the two buffers
C17_Witness ==
    /\ op = "linearCrossfadeBuffersOut"
    /\ args.channelCount = StemChannels /\ args.numSamples = 2 * StemChannels
    /\ \A ch \in 0..StemChannels - 1 : At(pDest0, ch) # At(pSrc, ch)
    /\ \A ch \in 0..StemChannels - 1 : At(pDest, ch) = At(pDest0, ch)
    /\ \A ch \in 0..StemChannels - 1 : At(pDest, StemChannels + ch) = Q(1, 2)

\* C18: stripMultiToStereo(buffer, numFrames, numChannels) with
\* numChannels > 2, in place and with a forward loop, leaves buffer[2i] and
\* buffer[2i+1] equal to the original channels 0 and 1 of frame i for every
\* i < numFrames, which is what copyOneStereoFromMulti with source channel 0
\* produces; no source sample is overwritten before it is read, and the
\* samples from 2*numFrames on are untouched.
C18_StripInPlace ==
    [][op' = "stripMultiToStereo" =>
          LET numFrames == args'.numFrames
              numChannels == args'.numChannels
              copied == copyOneStereoFromMulti(Fill(2 * numFrames, CSAMPLE_ZERO), pSrc,
                                               numFrames, numChannels, 0)
          IN  /\ numChannels > 2
              /\ Len(pSrc') = Len(pSrc)
              /\ \A i \in 0..numFrames - 1 :
                    /\ At(pSrc', 2 * i) = At(pSrc, i * numChannels)
                    /\ At(pSrc', 2 * i + 1) = At(pSrc, i * numChannels + 1)
              /\ \A k \in 0..2 * numFrames - 1 : At(pSrc', k) = At(copied, k)
              /\ \A k \in 2 * numFrames..Len(pSrc) - 1 : At(pSrc', k) = At(pSrc, k)]_vars

\* three frames of three channels with distinct samples 1, 2, 4, .., 256 were
\* stripped: the buffer starts with 1, 2, 8, 16, 64, 128
C18_Witness ==
    /\ op = "stripMultiToStereo"
    /\ args.numFrames = 3 /\ args.numChannels = 3
    /\ At(pSrc, 0) = R(1) /\ At(pSrc, 1) = R(2)
    /\ At(pSrc, 2) = R(8) /\ At(pSrc, 3) = R(16)
    /\ At(pSrc, 4) = R(64) /\ At(pSrc, 5) = R(128)
    /\ At(pSrc, 8) = R(256)

----------------------------------------------------------------------------
(* Gain engine: ramped accumulation, and ramps over consecutive blocks.     *)

RECURSIVE addRampLoop(_, _, _, _, _, _)
addRampLoop(dst, src, old_gain, gain_delta, numSamples, i) ==
    IF i < numSamples \div 2
    THEN LET gain == rampGain(old_gain, gain_delta, i)
             d1 == Put(dst, i * 2, RAdd(At(dst, i * 2), RMul(At(src, i * 2), gain)))
             d2 == Put(d1, i * 2 + 1,
                       RAdd(At(d1, i * 2 + 1), RMul(At(src, i * 2 + 1), gain)))
         IN  addRampLoop(d2, src, old_gain, gain_delta, numSamples, i + 1)
    ELSE dst

RECURSIVE addFlatLoop(_, _, _, _, _)
addFlatLoop(dst, src, gain, numSamples, i) ==
    IF i < numSamples
    THEN addFlatLoop(Put(dst, i, RAdd(At(dst, i), RMul(At(src, i), gain))), src, gain,
                     numSamples, i + 1)
    ELSE dst

\* a ramp loop that starts at old_gain: gain = old_gain + gain_delta * i
RECURSIVE MutAddRampFromOldLoop(_, _, _, _, _, _)
MutAddRampFromOldLoop(dst, src, old_gain, gain_delta, numSamples, i) ==
    IF i < numSamples \div 2
    THEN LET gain == RAdd(old_gain, RMul(gain_delta, R(i)))
             d1 == Put(dst, i * 2, RAdd(At(dst, i * 2), RMul(At(src, i * 2), gain)))
             d2 == Put(d1, i * 2 + 1,
                       RAdd(At(d1, i * 2 + 1), RMul(At(src, i * 2 + 1), gain)))
         IN  MutAddRampFromOldLoop(d2, src, old_gain, gain_delta, numSamples, i + 1)
    ELSE dst

MutAddRampFromOld(dst, src, old_gain, new_gain, numSamples) ==
    IF old_gain = CSAMPLE_GAIN_ZERO /\ new_gain = CSAMPLE_GAIN_ZERO THEN dst
    ELSE LET gain_delta == gainDelta(old_gain, new_gain, numSamples)
         IN  IF gain_delta # R(0)
             THEN MutAddRampFromOldLoop(dst, src, old_gain, gain_delta, numSamples, 0)
             ELSE addFlatLoop(dst, src, old_gain, numSamples, 0)

\* SampleUtil::addWithRampingGain(pDest, pSrc, old_gain, new_gain, numSamples)
addWithRampingGain(dst, src, old_gain, new_gain, numSamples) ==
    IF old_gain = CSAMPLE_GAIN_ZERO /\ new_gain = CSAMPLE_GAIN_ZERO THEN dst
    ELSE LET gain_delta == gainDelta(old_gain, new_gain, numSamples)
         IN  IF gain_delta # R(0)
             THEN addRampLoop(dst, src, old_gain, gain_delta, numSamples, 0)
             ELSE addFlatLoop(dst, src, old_gain, numSamples, 0)

\* the gain each of the three functions uses for the frames 0 .. numSamples/2 - 1:
\* the ramp when gain_delta # 0, old_gain otherwise (the shortcuts for two
\* gains of one or of zero are the flat gain one or zero)
frameGains(old_gain, new_gain, numSamples) ==
    IF old_gain = CSAMPLE_GAIN_ONE /\ new_gain = CSAMPLE_GAIN_ONE
    THEN Fill(numSamples \div 2, CSAMPLE_GAIN_ONE)
    ELSE IF old_gain = CSAMPLE_GAIN_ZERO /\ new_gain = CSAMPLE_GAIN_ZERO
    THEN Fill(numSamples \div 2, CSAMPLE_GAIN_ZERO)
    ELSE IF gainDelta(old_gain, new_gain, numSamples) # R(0)
    THEN rampGains(old_gain, new_gain, numSamples)
    ELSE Fill(numSamples \div 2, old_gain)

----------------------------------------------------------------------------
(* A stream of consecutive blocks: every block is processed by one of the   *)
(* ramping functions with the previous block's new gain as its old gain.    *)
(* args.new_gain of the idle state is the gain the stream starts from;      *)
(* args.block counts the blocks; gains holds the frame gains of the block.  *)

StreamMaxFrames == 2     \* longest block, in stereo frames
StreamMaxBlocks == 3     \* blocks of a stream

StreamGains == {R(0), Q(1, 2), R(1), R(2)}

\* block contents: sample k is k*v, nonzero and different at every position
StreamBlock(v, len) == [k \in 1..len |-> R(k * v)]

InitStream ==
    /\ op = "idle" /\ ret = NoValue /\ gains = <<>> /\ divisor = -1
    /\ InitNoFixed /\ InitNoMemory
    /\ \E g \in StreamGains :
          args = [numSamples |-> 0, old_gain |-> g, new_gain |-> g, block |-> 0]
    /\ pDest = <<>> /\ pSrc = <<>> /\ pDest0 = <<>>

\* the next block arrives in pDest (content on entry: pDest0) and is scaled
\* in place
StreamApplyRampingGain ==
    /\ args.block < StreamMaxBlocks
    /\ \E frames \in 1..StreamMaxFrames, new_gain \in StreamGains, v \in {1, -2} :
          LET n == 2 * frames
              old_gain == args.new_gain
          IN  /\ op' = "applyRampingGain"
              /\ args' = [numSamples |-> n, old_gain |-> old_gain,
                          new_gain |-> new_gain, block |-> args.block + 1]
              /\ pDest0' = StreamBlock(v, n)
              /\ pSrc' = <<>>
              /\ pDest' = applyRampingGain(StreamBlock(v, n), old_gain, new_gain, n)
              /\ gains' = frameGains(old_gain, new_gain, n)
    /\ UNCHANGED <<ret, divisor>>
    /\ UNCHANGED fixVars /\ UNCHANGED memVars

\* the next block arrives in pSrc and is copied over the output block
StreamCopyWithRampingGain ==
    /\ args.block < StreamMaxBlocks
    /\ \E frames \in 1..StreamMaxFrames, new_gain \in StreamGains, v \in {1, -2} :
          LET n == 2 * frames
              old_gain == args.new_gain
          IN  /\ op' = "copyWithRampingGain"
              /\ args' = [numSamples |-> n, old_gain |-> old_gain,
                          new_gain |-> new_gain, block |-> args.block + 1]
              /\ pDest0' = Fill(n, R(7))
              /\ pSrc' = StreamBlock(v, n)
              /\ pDest' = copyWithRampingGain(Fill(n, R(7)), StreamBlock(v, n),
                                              old_gain, new_gain, n)
              /\ gains' = frameGains(old_gain, new_gain, n)
    /\ UNCHANGED <<ret, divisor>>
    /\ UNCHANGED fixVars /\ UNCHANGED memVars

\* the next block arrives in pSrc and is accumulated onto the output block
StreamAddWithRampingGain ==
    /\ args.block < StreamMaxBlocks
    /\ \E frames \in 1..StreamMaxFrames, new_gain \in StreamGains, v \in {1, -2} :
          LET n == 2 * frames
              old_gain == args.new_gain
          IN  /\ op' = "addWithRampingGain"
              /\ args' = [numSamples |-> n, old_gain |-> old_gain,
                          new_gain |-> new_gain, block |-> args.block + 1]
              /\ pDest0' = StreamBlock(3, n)
              /\ pSrc' = StreamBlock(v, n)
              /\ pDest' = addWithRampingGain(StreamBlock(3, n), StreamBlock(v, n),
                                             old_gain, new_gain, n)
              /\ gains' = frameGains(old_gain, new_gain, n)
    /\ UNCHANGED <<ret, divisor>>
    /\ UNCHANGED fixVars /\ UNCHANGED memVars

NextStream ==
    \/ StreamApplyRampingGain
    \/ StreamCopyWithRampingGain
    \/ StreamAddWithRampingGain

SpecStream == InitStream /\ [][NextStream]_vars

\* the sample the block's function leaves at position k when frame gain g is
\* applied there
GainApplied(name, before, src, k, g) ==
    IF name = "applyRampingGain" THEN RMul(At(before, k), g)
    ELSE IF name = "copyWithRampingGain" THEN RMul(At(src, k), g)
    ELSE RAdd(At(before, k), RMul(At(src, k), g))

\* C19: over consecutive blocks processed by applyRampingGain,
\* copyWithRampingGain or addWithRampingGain, each block's old gain being the
\* previous block's new gain, the gain applied to the last frame of every
\* block is that block's new gain, every frame's gain is one step of its
\* block past the gain before it, and so the gain applied across a block
\* boundary changes by exactly one step of the following block.
C19_RampContinuesAcrossBlocks ==
    [][op' # "idle" =>
          LET F == args'.numSamples \div 2
              step == RDiv(RSub(args'.new_gain, args'.old_gain), R(F))
          IN  /\ args'.old_gain = args.new_gain
              /\ Len(gains') = F
              /\ \A i \in 0..F - 1 : \A c \in {0, 1} :
                    At(pDest', 2 * i + c) =
                        GainApplied(op', pDest0', pSrc', 2 * i + c, At(gains', i))
              /\ At(gains', F - 1) = args'.new_gain
              /\ At(gains', 0) = RAdd(args.new_gain, step)
              /\ \A i \in 1..F - 1 : At(gains', i) = RAdd(At(gains', i - 1), step)
              /\ (op # "idle" =>
                     At(gains', 0) = RAdd(At(gains, Len(gains) - 1), step))]_vars

\* the third block of a stream, accumulated with a ramp from 1/2 to 2 over
\* two frames: the frame gains are 5/4 and 2
C19_Witness ==
    /\ op = "addWithRampingGain"
    /\ args.block = 3
    /\ args.old_gain = Q(1, 2) /\ args.new_gain = R(2)
    /\ gains = <<Q(5, 4), R(2)>>
    /\ At(pDest, 3) = RAdd(At(pDest0, 3), RMul(At(pSrc, 3), R(2)))

\* C20: whenever the debug assertion of insertStereoToMulti holds
\* (numChannels > 2 and channelOffset - 1 < numFrames), every index written
\* for frame i lies inside that frame's slot range
\* [i*numChannels, (i+1)*numChannels) of dest, hence inside the
\* numFrames*numChannels destination buffer, and the call returns.
C20_WritesStayInFrame ==
    (op = "insertStereoToMulti" /\ args.asserted) =>
        /\ \A k \in DOMAIN ret.writes :
              LET i == ret.writes[k][1]
                  idx == ret.writes[k][2]
              IN  /\ i * args.numChannels <= idx
                  /\ idx < (i + 1) * args.numChannels
                  /\ idx < args.numFrames * args.numChannels
        /\ ret.outcome = "returned"

----------------------------------------------------------------------------
(* Layout of a buffer inside its block in the over-allocate-and-shift       *)
(* scheme.                                                                  *)

\* the pointer-sized slot just before the returned address
SlotRange(b) == (b.ptr - build.pointerSize)..(b.ptr - 1)

\* the usable region [returned, returned + size * sizeof(CSAMPLE))
UsableRange(b) == b.ptr..(b.ptr + b.size * SizeofCSAMPLE - 1)

\* C21: in the over-allocate-and-shift scheme, for every malloc result aligned
\* to at least the pointer size, the pointer-sized slot just before the
\* returned address and the whole usable region
\* [returned, returned + size*sizeof(sample)) lie inside the malloc'ed block
\* [p, p + size*sizeof(sample) + alignment) and do not overlap each other.
C21_SlotAndRegionInsideBlock ==
    ManualScheme(build) =>
        \A b \in bufs :
            (b.origin % build.pointerSize = 0) =>
                LET block == b.origin..(b.origin + b.size * SizeofCSAMPLE
                                            + build.kAlignment - 1)
                IN  /\ [base |-> b.origin,
                        len |-> b.size * SizeofCSAMPLE + build.kAlignment] \in heap
                    /\ SlotRange(b) \subseteq block
                    /\ UsableRange(b) \subseteq block
                    /\ SlotRange(b) \cap UsableRange(b) = {}

\* two buffers at the two extremes: the slot of one starts at its block's
\* first byte (the smallest shift), the region of the other, from a malloc
\* result that was already a multiple of the alignment, ends at its block's
\* last byte (the largest shift)
C21_Witness ==
    /\ ManualScheme(build)
    /\ \E b \in bufs : b.ptr - build.pointerSize = b.origin
    /\ \E b \in bufs :
          /\ b.size > 0
          /\ b.origin % build.kAlignment = 0
          /\ b.ptr + b.size * SizeofCSAMPLE = b.origin + b.size * SizeofCSAMPLE
                                                 + build.kAlignment

====
